---- MODULE Spec2Model ----
(***************************************************************************)
(* EchoPy: the audio capture pipeline of src/src/audio_processor.py and    *)
(* the smoothing filters of src/src/utils.py.                              *)
(*                                                                         *)
(* The main (GUI) thread runs start, stop and set_device; pc is its        *)
(* position inside the running call.  The audio driver invokes the         *)
(* callback on its own thread for every stream that is open and started.   *)
(* Driver calls (PyAudio(), pa.open, sd.query_devices, sd.InputStream,     *)
(* stream.start, stream.stop) succeed or raise as the environment chooses. *)
(*                                                                         *)
(* Units: sample amplitudes are in 1/100000 of full scale, spectrum and    *)
(* filter values in 1/1000.                                                *)
(***************************************************************************)
EXTENDS Integers, Sequences, FiniteSets, TLC

VARIABLES
    \* ---- AudioProcessor fields (audio_processor.py:30-50)
    stream,         \* None or <<id>>: the stream object self.stream refers to
    pa_instance,    \* None, <<"live">> or <<"dead">>: the PyAudio object referred to
    is_running,
    device_index,   \* None or <<index>>
    sample_rate,
    audio_buffer,   \* [len, val]: the clipped waveform of the last processed block
    fft_data,       \* the last smoothed spectrum
    gain,
    smoother,       \* the filter object: SmoothingBuffer or CavaFilter
    \* ---- the driver world
    HAS_PYAUDIOWPATCH,
    openStreams,    \* the streams opened and not yet closed
    paLeaked,       \* live PyAudio objects nothing refers to any more
    faults,         \* driver calls that have raised so far
    \* ---- the main thread's position
    pc, ctx, arg_dev, arg_loop,
    device_list,    \* the devices still to try, the current one first
    todo,           \* the (channels, rate) tuples still to try on it, the current one first
    \* ---- observations
    ret,            \* at start's return: the value returned and how the call ended
    blocks,         \* callback invocations so far
    cb,             \* the last callback invocation: the status it was handed, how it
                    \* ended ("emit": it emitted audio_data_ready) and the activity
                    \* level it emitted
    old_stream,     \* the stream self.stream referred to when stop or set_device was called
    call,           \* the last call of a method outside the capture lifecycle (a filter
                    \* method, get_devices, find_loopback_candidates): its name, its
                    \* arguments and what it gave
    \* ---- the rendering layer
    widget          \* the VisualizerWidget connected to audio_data_ready

procVars == <<stream, pa_instance, is_running, device_index, sample_rate>>
dataVars == <<audio_buffer, fft_data, gain, smoother>>
loopVars == <<device_list, todo>>
cbVars == <<blocks, cb>>

vars == <<procVars, dataVars, HAS_PYAUDIOWPATCH, openStreams, paLeaked, faults,
          pc, ctx, arg_dev, arg_loop, loopVars, ret, cbVars, old_stream, call, widget>>

\* ---------------------------------------------------------------- bounds
MaxStreams == 2     \* streams the driver lets be open at once
MaxFaults == 3      \* driver calls that raise in one run
MaxBlocks == 1      \* callback invocations explored
BufferSize == 6     \* buffer_size = fft_size, scaled down from 2048

\* ---------------------------------------------------------------- values
None == <<>>
Some(x) == <<x>>

Min(a, b) == IF a < b THEN a ELSE b
Max(a, b) == IF a > b THEN a ELSE b
Abs(a) == IF a < 0 THEN -a ELSE a
clip(x, lo, hi) == Max(lo, Min(hi, x))

RECURSIVE SortDesc(_)
SortDesc(S) ==
    IF S = {} THEN <<>>
    ELSE LET m == CHOOSE x \in S : \A y \in S : y <= x
         IN <<m>> \o SortDesc(S \ {m})

RECURSIVE Zeros(_)
Zeros(n) == IF n <= 0 THEN <<>> ELSE <<0>> \o Zeros(n - 1)

Range(s) == {s[i] : i \in DOMAIN s}

\* ---------------------------------------------------------------- devices
\* What sd.query_devices() reports on the modelled host.  has: the keywords the
\* lower-cased name contains; in_default: the default output's name occurs in
\* the name.
DeviceIds == {0, 1}

DeviceInfo(i) ==
    CASE i = 0 -> [name |-> "Speakers (Realtek Audio)", hostapi |-> "Windows WASAPI",
                   max_input_channels |-> 0, max_output_channels |-> 2,
                   default_samplerate |-> 48000, has |-> {}, in_default |-> TRUE]
      [] OTHER -> [name |-> "Stereo Mix (Realtek Audio)", hostapi |-> "MME",
                   max_input_channels |-> 2, max_output_channels |-> 0,
                   default_samplerate |-> 44100, has |-> {"stereo mix", "mix"},
                   in_default |-> FALSE]

\* The input device sd.query_devices answers with when the index has no value.
DefaultInput == DeviceInfo(1)

\* The loopback device PyAudioWPatch reports for the default speakers
\* (PyAudio numbers devices on its own).
PaLoopback == [index |-> 3, maxInputChannels |-> 2, defaultSampleRate |-> 48000]

\* get_device_info_by_index(i)['maxInputChannels'] of the PyAudio host.
PaMaxInputChannels(i) ==
    CASE i = 0 -> 0
      [] i = 1 -> 1
      [] OTHER -> 2

RECURSIVE AppendMatching(_, _, _)
\* for i, d in enumerate(devices): if i matches and i not in candidates: append
AppendMatching(cands, ids, matching) ==
    IF ids = <<>> THEN cands
    ELSE LET i == Head(ids)
             next == IF i \in matching /\ i \notin Range(cands)
                     THEN Append(cands, i) ELSE cands
         IN AppendMatching(next, Tail(ids), matching)

DeviceOrder == <<0, 1>>

LoopbackKeywords == {"mix", "loopback", "reverb", "monitor", "what u hear"}

\* q: "ok", "no_default" (the default output query raises: step 1 is skipped) or
\* "fail" (a later query raises: the empty list is returned).
find_loopback_candidates(q) ==
    LET native(i) == /\ DeviceInfo(i).hostapi = "Windows WASAPI"
                     /\ (DeviceInfo(i).in_default \/ "syncmaster" \in DeviceInfo(i).has)
        mixMME(i) == "stereo mix" \in DeviceInfo(i).has /\ DeviceInfo(i).hostapi = "MME"
        mixAny(i) == "stereo mix" \in DeviceInfo(i).has
        keyword(i) == DeviceInfo(i).has \cap LoopbackKeywords # {}
        c1 == IF q = "ok" THEN AppendMatching(<<>>, DeviceOrder, {i \in DeviceIds : native(i)}) ELSE <<>>
        c2 == AppendMatching(c1, DeviceOrder, {i \in DeviceIds : mixMME(i)})
        c3 == AppendMatching(c2, DeviceOrder, {i \in DeviceIds : mixAny(i)})
        c4 == AppendMatching(c3, DeviceOrder, {i \in DeviceIds : keyword(i)})
    IN IF q = "fail" THEN <<>> ELSE c4

\* ---- get_devices
\* str.lower() of one character
LowerChar(c) ==
    CASE c = "A" -> "a" [] c = "B" -> "b" [] c = "C" -> "c" [] c = "D" -> "d"
      [] c = "E" -> "e" [] c = "F" -> "f" [] c = "G" -> "g" [] c = "H" -> "h"
      [] c = "I" -> "i" [] c = "J" -> "j" [] c = "K" -> "k" [] c = "L" -> "l"
      [] c = "M" -> "m" [] c = "N" -> "n" [] c = "O" -> "o" [] c = "P" -> "p"
      [] c = "Q" -> "q" [] c = "R" -> "r" [] c = "S" -> "s" [] c = "T" -> "t"
      [] c = "U" -> "u" [] c = "V" -> "v" [] c = "W" -> "w" [] c = "X" -> "x"
      [] c = "Y" -> "y" [] c = "Z" -> "z" [] OTHER -> c

RECURSIVE lower(_)
\* device['name'].lower()
lower(name) ==
    IF Len(name) = 0 THEN ""
    ELSE LowerChar(SubSeq(name, 1, 1)) \o lower(SubSeq(name, 2, Len(name)))

\* kw in device_name
Contains(name, kw) ==
    \E i \in 1..(Len(name) - Len(kw) + 1) : SubSeq(name, i, i + Len(kw) - 1) = kw

valid_keywords == {"stereo mix", "what u hear", "loopback", "wave out", "waveout", "monitor"}
exclude_keywords == {"mic", "microphone", "input", "headset", "webcam", "line in"}

\* a faulty variant of is_valid: a microphone keyword always excludes the device
is_valid_no_override(device) ==
    LET device_name == lower(device.name)
    IN /\ \E kw \in valid_keywords : Contains(device_name, kw)
       /\ ~\E kw \in exclude_keywords : Contains(device_name, kw)
       /\ device.max_input_channels > 0

\* is_valid at the end of the first loop of get_devices
is_valid(device) ==
    LET device_name == lower(device.name)
        v1 == \E kw \in valid_keywords : Contains(device_name, kw)
        v2 == IF (\E kw \in exclude_keywords : Contains(device_name, kw))
                   /\ ~Contains(device_name, "stereo mix")
              THEN FALSE ELSE v1
    IN IF device.max_input_channels <= 0 THEN FALSE ELSE v2

\* the condition of the fallback loop
is_fallback(device) ==
    /\ device.max_input_channels > 0
    /\ ~\E kw \in exclude_keywords : Contains(lower(device.name), kw)

RECURSIVE input_devices(_, _, _)
\* one loop of get_devices from position i on: the entries appended
input_devices(devices, i, system) ==
    IF i > Len(devices) THEN <<>>
    ELSE LET device == devices[i]
             entry == [index |-> i - 1,
                       name |-> IF system THEN device.name \o " (System Audio)"
                                ELSE device.name,
                       channels |-> device.max_input_channels,
                       sample_rate |-> device.default_samplerate,
                       is_loopback |-> system]
             listed == IF system THEN is_valid(device) ELSE is_fallback(device)
         IN (IF listed THEN <<entry>> ELSE <<>>) \o input_devices(devices, i + 1, system)

\* a faulty variant of get_devices: the query is made outside the try
get_devices_unguarded(devices, q) ==
    LET first == input_devices(devices, 1, TRUE)
    IN IF q = "fail" THEN [out |-> <<>>, raised |-> "Exception"]
       ELSE [out |-> IF first = <<>> THEN input_devices(devices, 1, FALSE) ELSE first,
             raised |-> ""]

\* get_devices on a host that reports devices; q = "fail": sd.query_devices()
\* raises.  Gives the list returned and the exception that leaves the method.
get_devices(devices, q) ==
    LET first == input_devices(devices, 1, TRUE)
    IN IF q = "fail" THEN [out |-> <<>>, raised |-> ""]
       ELSE [out |-> IF first = <<>> THEN input_devices(devices, 1, FALSE) ELSE first,
             raised |-> ""]

is_wasapi_loopback(info) ==
    info.hostapi = "Windows WASAPI" /\ info.max_input_channels = 0

chan_candidates(info) ==
    LET hw == IF is_wasapi_loopback(info) THEN info.max_output_channels
              ELSE info.max_input_channels
    IN SortDesc({c \in {hw, 2, 1} : c > 0})

\* a faulty variant of sample_rates: the rates in ascending order
sample_rates_ascending(info) ==
    LET r == SortDesc({info.default_samplerate, 48000, 44100})
    IN [i \in 1..Len(r) |-> r[Len(r) + 1 - i]]

\* line 176: sorted(list(set([default_samplerate, 48000, 44100])), reverse=True)
sample_rates(info) == SortDesc({info.default_samplerate, 48000, 44100})

RECURSIVE Pairs(_, _)
\* for chans in chan_candidates: for rate in sample_rates: the tuples in order
Pairs(cs, rs) ==
    IF cs = <<>> THEN <<>>
    ELSE [i \in 1..Len(rs) |-> <<Head(cs), rs[i]>>] \o Pairs(Tail(cs), rs)

attempt_tuples(info) == Pairs(chan_candidates(info), sample_rates(info))

\* device_list of _start_sounddevice
sd_device_list(d, loop, q) ==
    LET l == IF d # None THEN <<d>>
             ELSE IF loop THEN [i \in DOMAIN find_loopback_candidates(q) |->
                                   Some(find_loopback_candidates(q)[i])]
             ELSE <<>>
    IN IF l = <<>> THEN <<None>> ELSE l

\* ---------------------------------------------------------------- filters
Milli == 1000
FftBins == BufferSize \div 2

\* float32 arithmetic, scaled down.  A float32 keeps 24 significant bits, here
\* SigBits; a value is a whole number of the smallest unit the format can hold.
\* A weight (smoothing, 1.0 - smoothing) is a Python float in [0, 1]: a whole
\* number of 2^-WeightBits, the finer grid of the double.
SigBits == 8
WeightBits == SigBits + 4

Pow2(k) == IF k <= 0 THEN 1 ELSE 2 ^ k

\* the number of binary digits of n < 256
BitLen8(n) ==
    IF n >= 16 THEN (IF n >= 64 THEN (IF n >= 128 THEN 8 ELSE 7)
                     ELSE (IF n >= 32 THEN 6 ELSE 5))
    ELSE IF n >= 4 THEN (IF n >= 8 THEN 4 ELSE 3)
    ELSE IF n >= 2 THEN 2
    ELSE IF n = 1 THEN 1
    ELSE 0

\* the number of binary digits of n, a number of at most 31 bits
BitLen(n) ==
    IF n >= 65536
    THEN (IF n >= 16777216 THEN 24 + BitLen8(n \div 16777216)
          ELSE 16 + BitLen8(n \div 65536))
    ELSE IF n >= 256 THEN 8 + BitLen8(n \div 256)
    ELSE BitLen8(n)

\* n / 2^k for n >= 0, rounded to the nearest whole number, ties to even
RoundShift(n, k) ==
    IF k <= 0 THEN n
    ELSE LET p == Pow2(k)
             q == n \div p
             r == n % p
         IN IF 2 * r > p \/ (2 * r = p /\ q % 2 = 1) THEN q + 1 ELSE q

\* n rounded to SigBits significant bits and to a multiple of 2^lo
Round(n, lo) ==
    LET a == Abs(n)
        k == Max(BitLen(a) - SigBits, lo)
        m == RoundShift(a, k) * Pow2(k)
    IN IF n = 0 THEN 0 ELSE IF n < 0 THEN -m ELSE m

\* np.array(values, dtype=np.float32)
float32(v) == Round(v, 0)

\* the distance between neighbouring float32 values at the magnitude of v
Ulp(v) == Pow2(Max(BitLen(Abs(v)) - SigBits, 0))

\* the Python float m / 1000 on the grid of the double
Double(m) == (2 * m * Pow2(WeightBits) + Milli) \div (2 * Milli)

\* a Python float as the float32 scalar it becomes in a product with a float32
\* array
Weight32(w) == Round(w, 0)

\* float32 array * float32 scalar, rounded to float32.  The result counts
\* 2^-WeightBits units.
Times(a, w32) == IF a = 0 \/ w32 = 0 THEN 0 ELSE Round(a * w32, 0)

\* float32 array + float32 array, of two products: a value in whole units
Plus(p, q) == Round(p + q, WeightBits) \div Pow2(WeightBits)

SmoothingBuffer(size, s) ==
    [kind |-> "SmoothingBuffer", size |-> size, smoothing |-> clip(s, 0, Milli),
     buffer |-> Zeros(size)]

CavaFilter(size, w, g) ==
    [kind |-> "CavaFilter", size |-> size, integral_weight |-> w, gravity |-> g,
     prev_values |-> Zeros(size), integral_buffer |-> Zeros(size)]

\* a faulty variant of SmoothingBuffer.update: an input of another length leaves
\* the filter as it is and gives its buffer
SmoothingBuffer_update_no_resize(f, values) ==
    LET n == Len(values)
        new_values == [i \in 1..n |-> float32(values[i])]
        s == Weight32(Double(f.smoothing))
        r == Weight32(Pow2(WeightBits) - Double(f.smoothing))
        nb == [i \in 1..n |->
                 Plus(Times(f.buffer[i], s), Times(new_values[i], r))]
    IN IF n # f.size THEN [obj |-> f, out |-> f.buffer, alias |-> FALSE]
       ELSE [obj |-> [f EXCEPT !.buffer = nb], out |-> nb, alias |-> FALSE]

\* a faulty variant of SmoothingBuffer.update: the input is added whole, without
\* its weight 1.0 - smoothing
SmoothingBuffer_update_unweighted(f, values) ==
    LET n == Len(values)
        new_values == [i \in 1..n |-> float32(values[i])]
        f1 == IF n # f.size THEN [f EXCEPT !.size = n, !.buffer = Zeros(n)] ELSE f
        s == Weight32(Double(f1.smoothing))
        nb == [i \in 1..n |->
                 Plus(Times(f1.buffer[i], s), Times(new_values[i], Pow2(WeightBits)))]
    IN [obj |-> [f1 EXCEPT !.buffer = nb], out |-> nb, alias |-> FALSE]

\* a faulty variant of SmoothingBuffer.update: the buffer itself is returned,
\* not a copy
SmoothingBuffer_update_shared(f, values) ==
    LET n == Len(values)
        new_values == [i \in 1..n |-> float32(values[i])]
        f1 == IF n # f.size THEN [f EXCEPT !.size = n, !.buffer = Zeros(n)] ELSE f
        s == Weight32(Double(f1.smoothing))
        r == Weight32(Pow2(WeightBits) - Double(f1.smoothing))
        nb == [i \in 1..n |->
                 Plus(Times(f1.buffer[i], s),
                      Times(new_values[i], r))]
    IN [obj |-> [f1 EXCEPT !.buffer = nb], out |-> nb, alias |-> TRUE]

\* SmoothingBuffer.update: [obj |-> the filter afterwards, out |-> the vector
\* returned, alias |-> whether out is the very array the filter keeps]
SmoothingBuffer_update(f, values) ==
    LET n == Len(values)
        new_values == [i \in 1..n |-> float32(values[i])]
        f1 == IF n # f.size THEN [f EXCEPT !.size = n, !.buffer = Zeros(n)] ELSE f
        s == Weight32(Double(f1.smoothing))
        r == Weight32(Pow2(WeightBits) - Double(f1.smoothing))
        nb == [i \in 1..n |->
                 Plus(Times(f1.buffer[i], s),
                      Times(new_values[i], r))]
    IN [obj |-> [f1 EXCEPT !.buffer = nb], out |-> nb, alias |-> FALSE]

\* a faulty variant of CavaFilter.update: a resize clears prev_values only, the
\* integral is cut or padded to the new length
CavaFilter_update_keeps_integral(f, values) ==
    LET n == Len(values)
        new_values == [i \in 1..n |-> float32(values[i])]
        f1 == IF n # f.size
              THEN [f EXCEPT !.size = n, !.prev_values = Zeros(n),
                             !.integral_buffer =
                                 [i \in 1..n |-> IF i <= f.size THEN f.integral_buffer[i]
                                                 ELSE 0]]
              ELSE f
        w == Weight32(Double(f1.integral_weight))
        v == Weight32(Pow2(WeightBits) - Double(f1.integral_weight))
        integ == [i \in 1..n |->
                    Plus(Times(new_values[i], v),
                         Times(f1.integral_buffer[i], w))]
        fall == [i \in 1..n |-> float32(f1.prev_values[i] - float32(f1.gravity))]
        output == [i \in 1..n |->
                     Max(0, IF integ[i] < fall[i] THEN fall[i] ELSE integ[i])]
    IN [obj |-> [f1 EXCEPT !.integral_buffer = integ, !.prev_values = output],
        out |-> output, alias |-> FALSE]

\* a faulty variant of CavaFilter.update: no gravity fall-off, the output is the
\* integral
CavaFilter_update_no_fall(f, values) ==
    LET n == Len(values)
        new_values == [i \in 1..n |-> float32(values[i])]
        f1 == IF n # f.size
              THEN [f EXCEPT !.size = n, !.prev_values = Zeros(n),
                             !.integral_buffer = Zeros(n)]
              ELSE f
        w == Weight32(Double(f1.integral_weight))
        v == Weight32(Pow2(WeightBits) - Double(f1.integral_weight))
        integ == [i \in 1..n |->
                    Plus(Times(new_values[i], v),
                         Times(f1.integral_buffer[i], w))]
        output == [i \in 1..n |-> Max(0, integ[i])]
    IN [obj |-> [f1 EXCEPT !.integral_buffer = integ, !.prev_values = output],
        out |-> output, alias |-> FALSE]

\* CavaFilter.update
CavaFilter_update(f, values) ==
    LET n == Len(values)
        new_values == [i \in 1..n |-> float32(values[i])]
        f1 == IF n # f.size
              THEN [f EXCEPT !.size = n, !.prev_values = Zeros(n),
                             !.integral_buffer = Zeros(n)]
              ELSE f
        w == Weight32(Double(f1.integral_weight))
        v == Weight32(Pow2(WeightBits) - Double(f1.integral_weight))
        integ == [i \in 1..n |->
                    Plus(Times(new_values[i], v),
                         Times(f1.integral_buffer[i], w))]
        fall == [i \in 1..n |-> float32(f1.prev_values[i] - float32(f1.gravity))]
        output == [i \in 1..n |->
                     Max(0, IF integ[i] < fall[i] THEN fall[i] ELSE integ[i])]
    IN [obj |-> [f1 EXCEPT !.integral_buffer = integ, !.prev_values = output],
        out |-> output, alias |-> FALSE]

\* a faulty variant of SmoothingBuffer.set_smoothing: the range of CavaFilter
SmoothingBuffer_set_smoothing_clamped(f, s) == [f EXCEPT !.smoothing = clip(s, 100, 950)]

\* SmoothingBuffer.set_smoothing
SmoothingBuffer_set_smoothing(f, s) == [f EXCEPT !.smoothing = clip(s, 0, Milli)]

\* SmoothingBuffer.reset
SmoothingBuffer_reset(f) == [f EXCEPT !.buffer = Zeros(f.size)]

\* CavaFilter.set_smoothing: clamp(smoothing, 0.1, 0.95)
CavaFilter_set_smoothing(f, s) == [f EXCEPT !.integral_weight = clip(s, 100, 950)]

\* the methods each class defines
Methods(f) ==
    IF f.kind = "CavaFilter" THEN {"update", "set_smoothing", "set_gravity"}
    ELSE {"update", "set_smoothing", "reset"}

\* SmoothingBuffer.update where line 177 reads self.smoothing twice: s1 is the
\* value read for buffer * smoothing, s2 the one read for 1.0 - smoothing
SmoothingBuffer_update_reads(f, values, s1, s2) ==
    LET n == Len(values)
        new_values == [i \in 1..n |-> float32(values[i])]
        f1 == IF n # f.size THEN [f EXCEPT !.size = n, !.buffer = Zeros(n)] ELSE f
        s == Weight32(Double(s1))
        r == Weight32(Pow2(WeightBits) - Double(s2))
        nb == [i \in 1..n |->
                 Plus(Times(f1.buffer[i], s),
                      Times(new_values[i], r))]
    IN [obj |-> [f1 EXCEPT !.buffer = nb], out |-> nb, alias |-> FALSE]

\* CavaFilter.update where line 227 reads self.integral_weight twice: w1 is the
\* value read for 1.0 - integral_weight, w2 the one read for integral_buffer * weight
CavaFilter_update_reads(f, values, w1, w2) ==
    LET n == Len(values)
        new_values == [i \in 1..n |-> float32(values[i])]
        f1 == IF n # f.size
              THEN [f EXCEPT !.size = n, !.prev_values = Zeros(n),
                             !.integral_buffer = Zeros(n)]
              ELSE f
        w == Weight32(Double(w2))
        v == Weight32(Pow2(WeightBits) - Double(w1))
        integ == [i \in 1..n |->
                    Plus(Times(new_values[i], v),
                         Times(f1.integral_buffer[i], w))]
        fall == [i \in 1..n |-> float32(f1.prev_values[i] - float32(f1.gravity))]
        output == [i \in 1..n |->
                     Max(0, IF integ[i] < fall[i] THEN fall[i] ELSE integ[i])]
    IN [obj |-> [f1 EXCEPT !.integral_buffer = integ, !.prev_values = output],
        out |-> output, alias |-> FALSE]

\* the attribute update reads twice
weight_of(f) == IF f.kind = "CavaFilter" THEN f.integral_weight ELSE f.smoothing

smoother_update_reads(f, values, first, second) ==
    IF f.kind = "CavaFilter" THEN CavaFilter_update_reads(f, values, first, second)
    ELSE SmoothingBuffer_update_reads(f, values, first, second)

smoother_update(f, values) ==
    IF f.kind = "CavaFilter" THEN CavaFilter_update(f, values)
    ELSE SmoothingBuffer_update(f, values)

\* ---------------------------------------------------------------- the callback
NOISE_FLOOR == 20
GAIN_MULTIPLIER == 15000
FullScale == 100000
BaseGain == 60

\* What the driver hands to the callback.  A block is summarised by the value amp
\* all its samples have and by raw, the |rfft(block * window)| * 2 / fft_size the
\* FFT library computes for it (zero for a zero block).
ZeroRaw == Zeros(FftBins)
LoudRaw == [i \in 1..FftBins |-> IF i = FftBins THEN 60000 ELSE 1000]

Block(ndim, frames, chans, c) ==
    [ndim |-> ndim, frames |-> frames, chans |-> chans, amp |-> c.amp, raw |-> c.raw]

Loud == [amp |-> 50, raw |-> LoudRaw]

\* indata of the sounddevice callback, here of a stereo stream: a block of the
\* configured size, a block of unexpected shape (one-dimensional) and a block of
\* unexpected length.
SdBlocks ==
    {Block(2, BufferSize, 2, Loud), Block(1, BufferSize, 2, Loud),
     Block(2, BufferSize + 1, 2, Loud)}

SdStatuses == {"none", "input_overflow"}

\* in_data of the PyAudio callback: nbytes bytes of interleaved float32 samples.
PaBlocks ==
    {[nbytes |-> n, amp |-> Loud.amp, raw |-> Loud.raw] :
        n \in {4 * BufferSize * 2, 4 * (BufferSize * 2 + 1), 4 * BufferSize * 2 + 2}}

\* PyAudio passes its status as an integer of flags.
PaStatuses == {"none", "int_flags"}

\* np.log1p(x) * 0.33 on the levels that occur in ZeroRaw and LoudRaw
Log1p033(x) ==
    CASE x = 0 -> 0
      [] x = 1000 -> 228
      [] x = 60000 -> 1356
      [] OTHER -> x

\* the downmix of a block whose samples all equal a (lines 274-286); the surround
\* weights are normalised to sum to 2
Downmix(chans, a) ==
    IF chans = 2 THEN (a + a) \div 2
    ELSE IF chans = 1 THEN a
    ELSE 2 * a

\* a faulty variant of fft_magnitude: the gained magnitude is not clipped
fft_magnitude_unclipped(raw, g) ==
    [i \in 1..Len(raw) |-> (Log1p033(IF i <= 2 THEN 0 ELSE raw[i]) * g) \div BaseGain]

\* lines 306-313: normalised magnitude -> DC removal -> log scaling -> gain, clip
fft_magnitude(raw, g) ==
    [i \in 1..Len(raw) |->
        clip((Log1p033(IF i <= 2 THEN 0 ELSE raw[i]) * g) \div BaseGain, 0, Milli)]

\* a faulty variant of input_overflow: the overflow flag is never seen
input_overflow_never(status) == FALSE

\* status.input_overflow of a truthy status (an integer status has no such
\* attribute: the AttributeError is caught like any other)
input_overflow(status) == status = "input_overflow"

\* a faulty variant of rms_above_floor: the operands of the subtraction exchanged
rms_above_floor_swapped(audio_data) == Max(0, NOISE_FLOOR - Abs(audio_data))

\* line 291, for a block whose samples all equal audio_data: the RMS of the part
\* of each sample above the noise floor
rms_above_floor(audio_data) == Max(0, Abs(audio_data) - NOISE_FLOOR)

\* _audio_callback.  Gives the fields it leaves behind, whether it emitted, the
\* frame emitted and how it ended.
audio_callback(indata, status, buf, fft, g, sm) ==
    LET same(how) == [audio_buffer |-> buf, fft_data |-> fft, smoother |-> sm,
                      emit |-> FALSE, frame |-> <<>>, outcome |-> how]
        audio_data == Downmix(indata.chans, indata.amp)
        activity_level == rms_above_floor(audio_data)
        nbuf == [len |-> indata.frames,
                 val |-> clip((audio_data * GAIN_MULTIPLIER * g) \div BaseGain,
                              -FullScale, FullScale)]
        upd == smoother_update(sm, fft_magnitude(indata.raw, g))
    IN IF status = "int_flags" THEN same("error")
       ELSE IF status # "none" /\ input_overflow(status) THEN same("overflow")
       ELSE IF indata.ndim # 2 THEN same("error")
       ELSE IF indata.frames \notin {1, BufferSize}
            THEN [same("error") EXCEPT !.audio_buffer = nbuf]
       ELSE [audio_buffer |-> nbuf, fft_data |-> upd.out, smoother |-> upd.obj,
             emit |-> TRUE, frame |-> <<nbuf, upd.out, activity_level>>,
             outcome |-> "emit"]

\* _pyaudio_callback: the conversion of in_data, then _audio_callback.  An
\* exception of the conversion is caught nowhere: outcome "raised".
pyaudio_callback(in_data, status, pa, dev, buf, fft, g, sm) ==
    LET raised == [audio_buffer |-> buf, fft_data |-> fft, smoother |-> sm,
                   emit |-> FALSE, frame |-> <<>>, outcome |-> "raised"]
        n == in_data.nbytes \div 4
        channels == PaMaxInputChannels(dev[1])
    IN IF in_data.nbytes % 4 # 0 THEN raised
       ELSE IF pa # <<"live">> \/ dev = None THEN raised
       ELSE IF channels = 0 \/ n % channels # 0 THEN raised
       ELSE audio_callback(Block(2, n \div channels, channels, in_data),
                           status, buf, fft, g, sm)

\* ---------------------------------------------------------------- the visualizer widget
\* Levels are in millionths of full scale.
RAW_THRESHOLD_ON == 800
RAW_THRESHOLD_OFF == 400
SILENCE_TIMEOUT == 3    \* updates below RAW_THRESHOLD_OFF before silence, scaled down from 45
WaveLen == 2            \* samples of a waveform, bins of a spectrum handed to the widget

\* An array object: origin tells the object ("own": allocated by the widget's
\* constructor; "received": an argument of an update_audio_data call), val its
\* contents.
Array(origin, val) == [origin |-> origin, val |-> val]

RECURSIVE MaxAbs(_)
\* np.max(np.abs(waveform)) if len(waveform) > 0 else 0.0
MaxAbs(a) == IF a = <<>> THEN 0 ELSE Max(Abs(Head(a)), MaxAbs(Tail(a)))

\* VisualizerWidget.__init__
VisualizerWidget ==
    [waveform |-> Array("own", Zeros(WaveLen)), fft_data |-> Array("own", Zeros(WaveLen)),
     current_max_peak |-> 0, activity_level |-> 0,
     is_silent |-> TRUE, silence_frame_counter |-> 0, timer |-> TRUE]

\* _update_activity_metrics: alpha = 0.15
update_activity_metrics(w, waveform, activity_signal) ==
    [w EXCEPT !.activity_level = (85 * w.activity_level + 15 * activity_signal) \div 100,
              !.current_max_peak = MaxAbs(waveform.val)]

\* a faulty variant of _update_state_machine: silence is entered one update early
update_state_machine_early(w) ==
    IF w.is_silent
    THEN IF w.activity_level > RAW_THRESHOLD_ON
         THEN [w EXCEPT !.is_silent = FALSE, !.silence_frame_counter = 0, !.timer = TRUE]
         ELSE w
    ELSE IF w.activity_level < RAW_THRESHOLD_OFF
         THEN IF w.silence_frame_counter + 1 >= SILENCE_TIMEOUT
              THEN [w EXCEPT !.silence_frame_counter = @ + 1, !.is_silent = TRUE,
                             !.timer = FALSE]
              ELSE [w EXCEPT !.silence_frame_counter = @ + 1]
         ELSE [w EXCEPT !.silence_frame_counter = 0]

\* _update_state_machine
update_state_machine(w) ==
    IF w.is_silent
    THEN IF w.activity_level > RAW_THRESHOLD_ON
         THEN [w EXCEPT !.is_silent = FALSE, !.silence_frame_counter = 0, !.timer = TRUE]
         ELSE w
    ELSE IF w.activity_level < RAW_THRESHOLD_OFF
         THEN IF w.silence_frame_counter + 1 > SILENCE_TIMEOUT
              THEN [w EXCEPT !.silence_frame_counter = @ + 1, !.is_silent = TRUE,
                             !.timer = FALSE]
              ELSE [w EXCEPT !.silence_frame_counter = @ + 1]
         ELSE [w EXCEPT !.silence_frame_counter = 0]

\* _update_internal_buffers: the widget after it, and the array objects it
\* wrote into.  Active: the widget keeps the arrays it was handed.  Silent:
\* fill(0.0) writes into the arrays the widget holds.
update_internal_buffers(w, waveform, fft) ==
    IF ~w.is_silent
    THEN [obj |-> [w EXCEPT !.waveform = waveform, !.fft_data = fft], wrote |-> {}]
    ELSE [obj |-> [w EXCEPT !.waveform.val = Zeros(Len(@)), !.fft_data.val = Zeros(Len(@))],
          wrote |-> {w.waveform.origin, w.fft_data.origin}]

\* update_audio_data(waveform, fft_data, activity_signal)
update_audio_data(w, waveform, fft, activity_signal) ==
    update_internal_buffers(
        update_state_machine(update_activity_metrics(w, waveform, activity_signal)),
        waveform, fft)

\* ---------------------------------------------------------------- the initial state
\* no method outside the capture lifecycle has been called
NoCall == [op |-> "none"]

\* AudioProcessor.__init__, apart from the smoother it is given
Idle ==
    /\ stream = None /\ pa_instance = None /\ is_running = FALSE
    /\ device_index = None /\ sample_rate = 44100
    /\ audio_buffer = [len |-> BufferSize, val |-> 0]
    /\ fft_data = Zeros(FftBins)
    /\ gain = BaseGain
    /\ openStreams = {} /\ paLeaked = 0 /\ faults = 0
    /\ pc = "idle" /\ ctx = "idle" /\ arg_dev = None /\ arg_loop = TRUE
    /\ device_list = <<>> /\ todo = <<>>
    /\ ret = None
    /\ blocks = 0 /\ cb = [status |-> "none", outcome |-> "none", activity |-> 0]
    /\ old_stream = None
    \* main_window.py:41: the window constructs its VisualizerWidget
    /\ widget = VisualizerWidget

Init ==
    /\ Idle
    \* main_window.py:31-34: the application injects SmoothingBuffer(fft_size // 2, 0.8)
    /\ smoother = SmoothingBuffer(FftBins, 800)
    /\ HAS_PYAUDIOWPATCH \in BOOLEAN
    /\ call = NoCall

\* a driver call returns (ok) or raises
Driver(ok) ==
    /\ ok \/ faults < MaxFaults
    /\ faults' = IF ok THEN faults ELSE faults + 1

\* the call returns to the GUI: its arguments and locals are gone
Return ==
    /\ pc' = "idle" /\ ctx' = "idle" /\ arg_dev' = None /\ arg_loop' = TRUE
    /\ device_list' = <<>> /\ todo' = <<>> /\ ret' = None /\ old_stream' = None

\* the identities a new stream object can have: those of no open stream and of
\* no stream an observation still names
FreeIds ==
    {i \in 1..MaxStreams : (\A s \in openStreams : s.id # i) /\ old_stream # Some(i)}
NewId == CHOOSE i \in FreeIds : \A j \in FreeIds : i <= j

\* PyAudio.terminate(): the instance's streams are closed with it
Terminated(streams) == {s \in streams : s.lib # "pa"}

\* a faulty variant of start_returns: the value tells how the call ended
start_returns_how(how) == how

\* what start hands to its caller however it ends: the bare return of lines 57
\* and 63 and the end of the body after line 68 all give None
start_returns(how) == "None"

\* ---------------------------------------------------------------- start
\* start(device_index, use_loopback), lines 56-68: the guard and the choice of path
\* faulty variants of start_guard: the guard never holds, the guard always holds
start_guard_never(running) == FALSE
start_guard_always(running) == TRUE

start_guard(running) == running

StartBody(d, loop) ==
    /\ arg_dev' = d /\ arg_loop' = loop
    /\ IF start_guard(is_running)
       THEN /\ pc' = "start_ret"
            /\ ret' = [value |-> start_returns("noop"), how |-> "noop"]
       ELSE /\ pc' = IF HAS_PYAUDIOWPATCH /\ loop /\ d = None THEN "pa_init"
                     ELSE "sd_begin"
            /\ ret' = None
    /\ device_list' = <<>> /\ todo' = <<>>
    /\ UNCHANGED <<procVars, dataVars, HAS_PYAUDIOWPATCH, openStreams, paLeaked, faults,
                   cbVars,
                   call, widget>>

Start(d, loop) ==
    /\ pc = "idle"
    /\ ctx' = "start"
    /\ old_stream' = None
    /\ StartBody(d, loop)

\* _start_pyaudiowpatch, line 73: pyaudio.PyAudio(); lines 121-126 when it raises,
\* with the instance an earlier call left behind
PaInit ==
    /\ pc = "pa_init"
    /\ \E ok \in BOOLEAN :
         /\ Driver(ok)
         /\ IF ok
            THEN /\ pa_instance' = <<"live">>
                 /\ paLeaked' = IF pa_instance = <<"live">> THEN paLeaked + 1 ELSE paLeaked
                 /\ pc' = "pa_probe"
                 /\ UNCHANGED openStreams
            ELSE /\ pa_instance' = None
                 /\ openStreams' = IF pa_instance = <<"live">>
                                   THEN Terminated(openStreams) ELSE openStreams
                 /\ pc' = "sd_begin"
                 /\ UNCHANGED paLeaked
    /\ UNCHANGED <<stream, is_running, device_index, sample_rate, dataVars,
                   HAS_PYAUDIOWPATCH, ctx, arg_dev, arg_loop, loopVars, ret, cbVars,
                   old_stream,
                   call, widget>>

\* lines 75-100: the search for the WASAPI host API and the loopback device.
\* "nothing": lines 83 or 99, terminate() and return False; "raised": lines 121-126
PaProbe ==
    /\ pc = "pa_probe"
    /\ \E found \in {"loopback", "nothing", "raised"} :
         /\ Driver(found = "loopback")
         /\ pa_instance' = CASE found = "loopback" -> pa_instance
                             [] found = "nothing" -> <<"dead">>
                             [] OTHER -> None
         /\ openStreams' = IF found = "loopback" THEN openStreams
                           ELSE Terminated(openStreams)
         /\ pc' = IF found = "loopback" THEN "pa_open" ELSE "sd_begin"
    /\ UNCHANGED <<stream, is_running, device_index, sample_rate, dataVars,
                   HAS_PYAUDIOWPATCH, paLeaked, ctx, arg_dev, arg_loop, loopVars, ret,
                   cbVars, old_stream,
                   call, widget>>

\* lines 105-113: pa_instance.open(...), which also starts the stream; lines
\* 121-126 when it raises
PaOpen ==
    /\ pc = "pa_open"
    /\ \E ok \in BOOLEAN :
         /\ Driver(ok \/ FreeIds = {})
         /\ IF ok /\ FreeIds # {}
            THEN /\ stream' = Some(NewId)
                 /\ openStreams' = openStreams \cup
                       {[id |-> NewId, lib |-> "pa", active |-> TRUE]}
                 /\ pc' = "pa_assign"
                 /\ UNCHANGED pa_instance
            ELSE /\ pa_instance' = None
                 /\ openStreams' = Terminated(openStreams)
                 /\ pc' = "sd_begin"
                 /\ UNCHANGED stream
    /\ UNCHANGED <<is_running, device_index, sample_rate, dataVars, HAS_PYAUDIOWPATCH,
                   paLeaked, ctx, arg_dev, arg_loop, loopVars, ret, cbVars, old_stream,
                   call, widget>>

\* lines 115-119
PaAssign ==
    /\ pc = "pa_assign"
    /\ sample_rate' = PaLoopback.defaultSampleRate
    /\ device_index' = Some(PaLoopback.index)
    /\ is_running' = TRUE
    /\ ret' = [value |-> start_returns("opened"), how |-> "opened"]
    /\ pc' = "start_ret"
    /\ UNCHANGED <<stream, pa_instance, dataVars, HAS_PYAUDIOWPATCH, openStreams,
                   paLeaked, faults, ctx, arg_dev, arg_loop, loopVars, cbVars,
                   old_stream,
                   call, widget>>

\* _start_sounddevice, lines 144-153: the device list
SdBegin ==
    /\ pc = "sd_begin"
    /\ \E q \in {"ok", "no_default", "fail"} :
         /\ Driver(q = "ok" \/ arg_dev # None \/ ~arg_loop)
         /\ device_list' = sd_device_list(arg_dev, arg_loop, q)
    /\ pc' = "sd_device"
    /\ UNCHANGED <<procVars, dataVars, HAS_PYAUDIOWPATCH, openStreams, paLeaked, ctx,
                   arg_dev, arg_loop, todo, ret, cbVars, old_stream,
                   call, widget>>

\* what sd.query_devices(idx) answers when it does not raise
QueryInfo(idx) == IF idx = None THEN DefaultInput ELSE DeviceInfo(idx[1])

\* lines 156-177 and 203-208: the query of the current device, or the end of
\* the list
SdDevice ==
    /\ pc = "sd_device"
    /\ IF device_list = <<>>
       THEN /\ is_running' = FALSE
            /\ ret' = [value |-> start_returns("failed"), how |-> "failed"]
            /\ pc' = "start_ret"
            /\ UNCHANGED <<device_list, todo, faults>>
       ELSE /\ \E ok \in BOOLEAN :
                 /\ Driver(ok)
                 /\ IF ok
                    THEN /\ todo' = attempt_tuples(QueryInfo(Head(device_list)))
                         /\ pc' = "sd_open"
                         /\ UNCHANGED device_list
                    ELSE /\ device_list' = Tail(device_list)
                         /\ pc' = "sd_device"
                         /\ UNCHANGED todo
            /\ UNCHANGED <<is_running, ret>>
    /\ UNCHANGED <<stream, pa_instance, device_index, sample_rate, dataVars,
                   HAS_PYAUDIOWPATCH, openStreams, paLeaked, ctx, arg_dev, arg_loop,
                   cbVars, old_stream,
                   call, widget>>

\* lines 179-192: sd.InputStream(...) for the current (channels, rate) tuple
SdOpen ==
    /\ pc = "sd_open"
    /\ IF todo = <<>>
       THEN /\ pc' = "sd_device"
            /\ device_list' = Tail(device_list)
            /\ UNCHANGED <<stream, openStreams, todo, faults>>
       ELSE /\ \E ok \in BOOLEAN :
                 /\ Driver(ok \/ FreeIds = {})
                 /\ IF ok /\ FreeIds # {}
                    THEN /\ stream' = Some(NewId)
                         /\ openStreams' = openStreams \cup
                               {[id |-> NewId, lib |-> "sd", active |-> FALSE]}
                         /\ pc' = "sd_start"
                         /\ UNCHANGED todo
                    ELSE /\ pc' = "sd_open"
                         /\ todo' = Tail(todo)
                         /\ UNCHANGED <<stream, openStreams>>
            /\ UNCHANGED device_list
    /\ UNCHANGED <<pa_instance, is_running, device_index, sample_rate, dataVars,
                   HAS_PYAUDIOWPATCH, paLeaked, ctx, arg_dev, arg_loop, ret, cbVars,
                   old_stream,
                   call, widget>>

Activate(streams, ref) ==
    {IF ref = Some(s.id) THEN [s EXCEPT !.active = TRUE] ELSE s : s \in streams}

\* lines 193-202: self.stream.start() and, when it returns, the new configuration
SdStart ==
    /\ pc = "sd_start"
    /\ \E ok \in BOOLEAN :
         /\ Driver(ok)
         /\ IF ok
            THEN /\ openStreams' = Activate(openStreams, stream)
                 /\ sample_rate' = Head(todo)[2]
                 /\ device_index' = Head(device_list)
                 /\ is_running' = TRUE
                 /\ ret' = [value |-> start_returns("opened"), how |-> "opened"]
                 /\ pc' = "start_ret"
                 /\ UNCHANGED todo
            ELSE /\ pc' = "sd_open"
                 /\ todo' = Tail(todo)
                 /\ UNCHANGED <<openStreams, sample_rate, device_index, is_running, ret>>
    /\ UNCHANGED <<stream, pa_instance, dataVars, HAS_PYAUDIOWPATCH, paLeaked, ctx,
                   arg_dev, arg_loop, device_list, cbVars, old_stream,
                   call, widget>>

\* start has returned: to the caller, or to set_device (lines 435-439)
StartRet ==
    /\ pc = "start_ret"
    /\ IF ctx = "set_device_start" /\ ~is_running
       THEN ctx' = "set_device_retry" /\ StartBody(None, TRUE) /\ UNCHANGED old_stream
       ELSE /\ Return
            /\ UNCHANGED <<procVars, dataVars, HAS_PYAUDIOWPATCH, openStreams, paLeaked,
                           faults, cbVars,
                   call, widget>>

\* ---------------------------------------------------------------- stop
\* stop(), lines 242-243: the guard
\* a faulty variant of stop_guard: the guard never holds
stop_guard_never(running) == FALSE

stop_guard(running) == ~running

StopBody ==
    /\ pc' = IF stop_guard(is_running) THEN "stop_ret" ELSE "stop_stream"
    /\ UNCHANGED <<procVars, dataVars, HAS_PYAUDIOWPATCH, openStreams, paLeaked, faults,
                   arg_dev, arg_loop, loopVars, ret, cbVars,
                   call, widget>>

Stop ==
    /\ pc = "idle"
    /\ ctx' = "stop"
    /\ old_stream' = stream
    /\ StopBody

\* the streams left open by lines 247-250 on the stream ref refers to.  A
\* sounddevice stream has stop and close, and close is skipped when stop raises.
\* A PyAudio stream has no attribute stop and is closed.
stop_and_close(streams, ref, stop_ok) ==
    {s \in streams : ref # Some(s.id) \/ (s.lib = "sd" /\ ~stop_ok)}

\* lines 245-252
StopStream ==
    /\ pc = "stop_stream"
    /\ IF stream # None
       THEN /\ \E stop_ok \in BOOLEAN :
                 /\ Driver(stop_ok)
                 /\ openStreams' = stop_and_close(openStreams, stream, stop_ok)
            /\ stream' = None
       ELSE UNCHANGED <<stream, openStreams, faults>>
    /\ pc' = "stop_pa"
    /\ UNCHANGED <<pa_instance, is_running, device_index, sample_rate, dataVars,
                   HAS_PYAUDIOWPATCH, paLeaked, ctx, arg_dev, arg_loop, loopVars, ret,
                   cbVars, old_stream,
                   call, widget>>

\* lines 254-261
StopPa ==
    /\ pc = "stop_pa"
    /\ IF pa_instance # None
       THEN /\ openStreams' = IF pa_instance = <<"live">> THEN Terminated(openStreams)
                              ELSE openStreams
            /\ pa_instance' = None
       ELSE UNCHANGED <<pa_instance, openStreams>>
    /\ is_running' = FALSE
    /\ pc' = "stop_ret"
    /\ UNCHANGED <<stream, device_index, sample_rate, dataVars, HAS_PYAUDIOWPATCH,
                   paLeaked, faults, ctx, arg_dev, arg_loop, loopVars, ret, cbVars,
                   old_stream,
                   call, widget>>

\* stop has returned: to the caller, or to set_device (lines 427-433)
StopRet ==
    /\ pc = "stop_ret"
    /\ IF ctx = "set_device"
       THEN ctx' = "set_device_start" /\ StartBody(arg_dev, TRUE) /\ UNCHANGED old_stream
       ELSE /\ Return
            /\ UNCHANGED <<procVars, dataVars, HAS_PYAUDIOWPATCH, openStreams, paLeaked,
                           faults, cbVars,
                   call, widget>>

\* ---------------------------------------------------------------- set_device
\* the values the settings dialog passes: -1 for automatic selection, or an index
DeviceArgs == {-1} \cup DeviceIds

\* a faulty variant of set_device_guard: the guard never holds
set_device_guard_never(d, current, running) == FALSE

\* set_device, lines 420-423: the guard
set_device_guard(d, current, running) == d = current /\ running

\* set_device(device_index), lines 417-433
SetDevice(din) ==
    /\ pc = "idle"
    /\ LET d == IF din = -1 THEN None ELSE Some(din)
       IN /\ arg_dev' = d
          /\ IF set_device_guard(d, device_index, is_running)
             THEN ctx' = "set_device_same" /\ pc' = "set_device_ret"
             ELSE IF is_running
             THEN ctx' = "set_device" /\ pc' = "stop_stream"
             ELSE ctx' = "set_device_stopped" /\ pc' = "set_device_ret"
    /\ old_stream' = stream
    /\ UNCHANGED <<procVars, dataVars, HAS_PYAUDIOWPATCH, openStreams, paLeaked, faults,
                   arg_loop, loopVars, ret, cbVars,
                   call, widget>>

\* set_device returns without having stopped or started anything (lines 421-426)
SetDeviceRet ==
    /\ pc = "set_device_ret"
    /\ Return
    /\ UNCHANGED <<procVars, dataVars, HAS_PYAUDIOWPATCH, openStreams, paLeaked, faults,
                   cbVars,
                   call, widget>>

\* ---------------------------------------------------------------- the driver thread
CallbackResult(s, b, st) ==
    IF s.lib = "sd"
    THEN audio_callback(b, st, audio_buffer, fft_data, gain, smoother)
    ELSE pyaudio_callback(b, st, pa_instance, device_index, audio_buffer, fft_data,
                          gain, smoother)

\* one block delivered by a stream that is open and started
Callback ==
    /\ blocks < MaxBlocks
    /\ \E s \in openStreams :
         /\ s.active
         /\ \E b \in IF s.lib = "sd" THEN SdBlocks ELSE PaBlocks,
               st \in IF s.lib = "sd" THEN SdStatuses ELSE PaStatuses :
              \E r \in {CallbackResult(s, b, st)} :
                 /\ audio_buffer' = r.audio_buffer
                 /\ fft_data' = r.fft_data
                 /\ smoother' = r.smoother
                 /\ cb' = [status |-> st, outcome |-> r.outcome,
                           activity |-> IF r.emit THEN r.frame[3] ELSE 0]
    /\ blocks' = blocks + 1
    /\ UNCHANGED <<procVars, gain, HAS_PYAUDIOWPATCH, openStreams, paLeaked, faults, pc,
                   ctx, arg_dev, arg_loop, loopVars, ret, old_stream,
                   call, widget>>

\* ---------------------------------------------------------------- the specification
\* the calls explored: automatic selection with and without loopback, and each
\* device by its index (main_window.py:70)
StartArgs == {<<None, TRUE>>, <<None, FALSE>>} \cup {<<Some(i), TRUE>> : i \in DeviceIds}

Next ==
    \/ \E a \in StartArgs : Start(a[1], a[2])
    \/ PaInit \/ PaProbe \/ PaOpen \/ PaAssign
    \/ SdBegin \/ SdDevice \/ SdOpen \/ SdStart
    \/ StartRet
    \/ Stop \/ StopStream \/ StopPa \/ StopRet
    \/ \E din \in DeviceArgs : SetDevice(din)
    \/ SetDeviceRet
    \/ Callback

Spec == Init /\ [][Next]_vars

\* ---------------------------------------------------------------- the lifecycle alone
\* start, stop and set_device with no block delivered meanwhile
LifecycleNext ==
    \/ \E a \in StartArgs : Start(a[1], a[2])
    \/ PaInit \/ PaProbe \/ PaOpen \/ PaAssign
    \/ SdBegin \/ SdDevice \/ SdOpen \/ SdStart
    \/ StartRet
    \/ Stop \/ StopStream \/ StopPa \/ StopRet
    \/ \E din \in DeviceArgs : SetDevice(din)
    \/ SetDeviceRet

LifecycleSpec == Init /\ [][LifecycleNext]_vars

\* ---------------------------------------------------------------- the filters alone
\* A filter object and the calls made on it.  The vectors count halves: 20 is
\* 10.0 (the filters are linear, the unit is the caller's).
MaxLen == 2         \* longest vector given to a filter
MaxCalls == 3       \* method calls on one filter

FilterValues == {0, 20, 163}

\* the vectors of a length: constant ones and one that is not
VectorsOf(n) ==
    {[i \in 1..n |-> v] : v \in FilterValues} \cup {[i \in 1..n |-> IF i = 1 THEN 20 ELSE 0]}

Vectors == UNION {VectorsOf(n) : n \in 1..MaxLen}

Smoothings == {0, 800, 1000}

Filters ==
    {SmoothingBuffer(n, s) : n \in 1..MaxLen, s \in {500, 800}}
        \cup {CavaFilter(n, 700, 30) : n \in 1..MaxLen}

\* a call on the filter: the filter before it (self), the vector given and the
\* vector returned, whether the vector returned is the array the filter keeps,
\* the exception it raised if any, and whether it is the call before it once more
Call(op, n, self, values, out, alias, raised, again) ==
    [op |-> op, n |-> n, self |-> self, values |-> values, out |-> out,
     alias |-> alias, raised |-> raised, again |-> again]

FilterInit ==
    /\ Idle
    /\ HAS_PYAUDIOWPATCH = TRUE
    /\ smoother \in Filters
    /\ call = Call("new", 0, smoother, <<>>, <<>>, FALSE, "", FALSE)

filterRest == <<procVars, audio_buffer, fft_data, gain, HAS_PYAUDIOWPATCH, openStreams,
                paLeaked, faults, pc, ctx, arg_dev, arg_loop, loopVars, ret, cbVars,
                old_stream, widget>>

\* smoother.update(values).  The calls are counted up to MaxCalls; an update with
\* the vector of the update before it can always be made once more.
Update(values) ==
    LET again == call.op = "update" /\ call.values = values
        r == smoother_update(smoother, values)
    IN /\ call.n < MaxCalls \/ again
       /\ smoother' = r.obj
       /\ call' = Call("update", Min(call.n + 1, MaxCalls), smoother, values, r.out,
                       r.alias, "", again)
    /\ UNCHANGED filterRest

\* smoother.set_smoothing(s)
SetSmoothing(s) ==
    /\ call.n < MaxCalls
    /\ smoother' = IF smoother.kind = "CavaFilter"
                   THEN CavaFilter_set_smoothing(smoother, s)
                   ELSE SmoothingBuffer_set_smoothing(smoother, s)
    /\ call' = Call("set_smoothing", call.n + 1, smoother, <<s>>, <<>>, FALSE, "", FALSE)
    /\ UNCHANGED filterRest

\* smoother.reset(): an AttributeError where the class has no such method
Reset ==
    /\ call.n < MaxCalls
    /\ IF "reset" \in Methods(smoother)
       THEN /\ smoother' = SmoothingBuffer_reset(smoother)
            /\ call' = Call("reset", call.n + 1, smoother, <<>>, <<>>, FALSE, "", FALSE)
       ELSE /\ smoother' = smoother
            /\ call' = Call("reset", call.n + 1, smoother, <<>>, <<>>, FALSE,
                            "AttributeError", FALSE)
    /\ UNCHANGED filterRest

\* the array a filter keeps and an update may hand out
Kept(f) == IF f.kind = "CavaFilter" THEN f.prev_values ELSE f.buffer

\* the caller writes v into entry i of the vector the last update returned
Write(i, v) ==
    /\ call.op = "update"
    /\ i \in DOMAIN call.out
    /\ call' = [call EXCEPT !.op = "write", !.out[i] = v]
    /\ smoother' = IF ~call.alias THEN smoother
                   ELSE IF smoother.kind = "CavaFilter"
                   THEN [smoother EXCEPT !.prev_values[i] = v]
                   ELSE [smoother EXCEPT !.buffer[i] = v]
    /\ UNCHANGED filterRest

FilterNext ==
    \/ \E values \in Vectors : Update(values)
    \/ \E s \in Smoothings : SetSmoothing(s)
    \/ Reset
    \/ \E i \in 1..MaxLen : Write(i, -1)

FilterSpec == FilterInit /\ [][FilterNext]_vars

\* ---------------------------------------------------------------- device enumeration alone
\* get_devices and find_loopback_candidates on a processor that is not capturing.
MaxDevices == 2     \* devices the host reports to get_devices

HostDevice(name, chans) ==
    [name |-> name, max_input_channels |-> chans, default_samplerate |-> 48000]

\* devices a host may report
Catalogue ==
    {HostDevice("Stereo Mix (Realtek Audio)", 2), HostDevice("Stereo Mix (Realtek Audio)", 0),
     HostDevice("Headset Stereo Mix", 1), HostDevice("Microphone Array", 2),
     HostDevice("Monitor of Built-in Audio", 2), HostDevice("Webcam Monitor", 2),
     HostDevice("CABLE Output (VB-Audio)", 2), HostDevice("Speakers (Realtek Audio)", 0)}

Hosts == UNION {[1..n -> Catalogue] : n \in 0..MaxDevices}

\* the host queries of one call: all answer, the lookup of the default output
\* alone raises, or sd.query_devices() raises
Queries == {"ok", "no_default", "fail"}

\* the host, and the last call: how the host answered, what was returned and
\* the exception that reached the caller
DeviceCall(op, host, q, out, raised) ==
    [op |-> op, host |-> host, query |-> q, out |-> out, raised |-> raised]

DeviceInit ==
    /\ Idle
    /\ HAS_PYAUDIOWPATCH = TRUE
    /\ smoother = CavaFilter(FftBins, 700, 30)
    /\ \E h \in Hosts : call = DeviceCall("new", h, "ok", <<>>, "")

deviceRest == <<procVars, dataVars, HAS_PYAUDIOWPATCH, openStreams, paLeaked, faults, pc,
                ctx, arg_dev, arg_loop, loopVars, ret, cbVars, old_stream, widget>>

\* main_window.py:232: self.audio_processor.get_devices()
GetDevices(q) ==
    /\ LET r == get_devices(call.host, q)
       IN call' = DeviceCall("get_devices", call.host, q, r.out, r.raised)
    /\ UNCHANGED deviceRest

\* audio_processor.py:148: self.find_loopback_candidates(), on the host of
\* DeviceInfo
FindLoopbackCandidates(q) ==
    /\ call' = DeviceCall("find_loopback_candidates", call.host, q,
                          find_loopback_candidates(q), "")
    /\ UNCHANGED deviceRest

DeviceNext ==
    \/ \E q \in {"ok", "fail"} : GetDevices(q)
    \/ \E q \in Queries : FindLoopbackCandidates(q)

DeviceSpec == DeviceInit /\ [][DeviceNext]_vars

\* ---------------------------------------------------------------- the callback alone
\* _audio_callback on blocks of the configured length, silent and loud, of every
\* channel count, with each kind of filter.
MaxChannels == 6    \* channels of a block
MaxFrames == 2      \* blocks given to the callback

Silence == [amp |-> 0, raw |-> ZeroRaw]

Blocks == {Block(2, BufferSize, c, k) : c \in 1..MaxChannels, k \in {Silence, Loud}}

\* the smoother the processor is constructed with
NewFilters ==
    {SmoothingBuffer(FftBins, s) : s \in {0, 500, 800, Milli}}
        \cup {CavaFilter(FftBins, w, g) : w \in {0, 700, Milli}, g \in {0, 30}}

\* every array the filter keeps is zero
AllZero(f) ==
    IF f.kind = "CavaFilter"
    THEN f.prev_values = Zeros(f.size) /\ f.integral_buffer = Zeros(f.size)
    ELSE f.buffer = Zeros(f.size)

BlockInit ==
    /\ Idle
    /\ HAS_PYAUDIOWPATCH = TRUE
    /\ smoother \in NewFilters
    /\ call = NoCall

\* one block given to _audio_callback with no status: the block, the filter
\* before it and what was emitted are kept in call
Process(indata) ==
    /\ blocks < MaxFrames
    /\ blocks' = blocks + 1
    /\ \E r \in {audio_callback(indata, "none", audio_buffer, fft_data, gain, smoother)} :
         /\ audio_buffer' = r.audio_buffer
         /\ fft_data' = r.fft_data
         /\ smoother' = r.smoother
         /\ cb' = [status |-> "none", outcome |-> r.outcome,
                   activity |-> IF r.emit THEN r.frame[3] ELSE 0]
         /\ call' = [op |-> "block", indata |-> indata, self |-> smoother,
                     emit |-> r.emit, frame |-> r.frame]
    /\ UNCHANGED <<procVars, gain, HAS_PYAUDIOWPATCH, openStreams, paLeaked, faults, pc,
                   ctx, arg_dev, arg_loop, loopVars, ret, old_stream, widget>>

\* the values given to set_gain (main_window.py:63, 299-308 pass 0 to 60) and to
\* set_smoothing, inside and outside the ranges the user interface offers
Gains == {-60, 0, 30, BaseGain, 600}
AnySmoothings == {-500, 0, 800, 1500}

\* set_gain(gain), lines 326-329
SetGain(g) ==
    /\ gain' = g
    /\ call' = [op |-> "set_gain", value |-> g]
    /\ UNCHANGED <<procVars, audio_buffer, fft_data, smoother, HAS_PYAUDIOWPATCH,
                   openStreams, paLeaked, faults, pc, ctx, arg_dev, arg_loop, loopVars,
                   ret, cbVars, old_stream, widget>>

\* set_smoothing(smoothing), lines 322-324
SetProcessorSmoothing(s) ==
    /\ smoother' = IF smoother.kind = "CavaFilter"
                   THEN CavaFilter_set_smoothing(smoother, s)
                   ELSE SmoothingBuffer_set_smoothing(smoother, s)
    /\ call' = [op |-> "set_smoothing", value |-> s]
    /\ UNCHANGED <<procVars, audio_buffer, fft_data, gain, HAS_PYAUDIOWPATCH,
                   openStreams, paLeaked, faults, pc, ctx, arg_dev, arg_loop, loopVars,
                   ret, cbVars, old_stream, widget>>

BlockNext ==
    \/ \E indata \in Blocks : Process(indata)
    \/ \E g \in Gains : SetGain(g)
    \/ \E s \in AnySmoothings : SetProcessorSmoothing(s)

BlockSpec == BlockInit /\ [][BlockNext]_vars

\* ---------------------------------------------------------------- the callback and the setters
\* _audio_callback on the driver's thread, one attribute read at a time, while
\* the GUI thread calls set_gain and set_smoothing.  cb keeps the position of the
\* callback (at), the block, the filter at its entry and the values computed so
\* far.
RaceBlocks == {Block(2, BufferSize, 2, k) : k \in {Silence, Loud}}

RaceInit ==
    /\ Idle
    /\ HAS_PYAUDIOWPATCH = TRUE
    /\ smoother \in {SmoothingBuffer(FftBins, 800), CavaFilter(FftBins, 700, 30)}
    /\ call = NoCall

raceRest == <<procVars, HAS_PYAUDIOWPATCH, openStreams, paLeaked, faults, pc, ctx, arg_dev,
              arg_loop, loopVars, ret, old_stream, call, widget>>

InCallback == cb.outcome = "running"

\* lines 263-291: the driver calls with a block and no status
CbEnter(indata) ==
    /\ ~InCallback /\ blocks < MaxFrames
    /\ cb' = [status |-> "none", outcome |-> "running", activity |-> 0, at |-> "waveform",
              indata |-> indata, self |-> smoother, gain |-> gain,
              audio_data |-> Downmix(indata.chans, indata.amp)]
    /\ UNCHANGED <<dataVars, blocks, raceRest>>

\* lines 297-299: self.gain is read for the waveform
CbWaveform ==
    /\ InCallback /\ cb.at = "waveform"
    /\ audio_buffer' = [len |-> cb.indata.frames,
                        val |-> clip((cb.audio_data * GAIN_MULTIPLIER * gain) \div BaseGain,
                                     -FullScale, FullScale)]
    /\ cb' = [cb EXCEPT !.at = "spectrum"]
    /\ UNCHANGED <<fft_data, gain, smoother, blocks, raceRest>>

\* lines 302-313: self.gain is read for the spectrum
CbSpectrum ==
    /\ InCallback /\ cb.at = "spectrum"
    /\ cb' = [at |-> "weigh_first", magnitude |-> fft_magnitude(cb.indata.raw, gain)] @@ cb
    /\ UNCHANGED <<dataVars, blocks, raceRest>>

\* utils.py 177, 227: the first read of the weight in smoother.update
CbWeighFirst ==
    /\ InCallback /\ cb.at = "weigh_first"
    /\ cb' = [at |-> "weigh_second", first |-> weight_of(smoother)] @@ cb
    /\ UNCHANGED <<dataVars, blocks, raceRest>>

\* utils.py 177-179, 227-238 and lines 316-317: the second read of the weight,
\* the new filter state, self.fft_data and the emission
CbWeighSecond ==
    /\ InCallback /\ cb.at = "weigh_second"
    /\ \E r \in {smoother_update_reads(smoother, cb.magnitude, cb.first,
                                       weight_of(smoother))} :
         /\ smoother' = r.obj
         /\ fft_data' = r.out
         /\ cb' = [status |-> "none", outcome |-> "emit",
                   activity |-> rms_above_floor(cb.audio_data), indata |-> cb.indata,
                   self |-> cb.self, gain |-> cb.gain,
                   frame |-> <<audio_buffer, r.out, rms_above_floor(cb.audio_data)>>]
    /\ blocks' = blocks + 1
    /\ UNCHANGED <<audio_buffer, gain, raceRest>>

\* set_gain(gain) on the GUI thread
RaceSetGain(g) ==
    /\ gain' = g
    /\ UNCHANGED <<audio_buffer, fft_data, smoother, cbVars, raceRest>>

\* set_smoothing(smoothing) on the GUI thread
RaceSetSmoothing(s) ==
    /\ smoother' = IF smoother.kind = "CavaFilter"
                   THEN CavaFilter_set_smoothing(smoother, s)
                   ELSE SmoothingBuffer_set_smoothing(smoother, s)
    /\ UNCHANGED <<audio_buffer, fft_data, gain, cbVars, raceRest>>

RaceNext ==
    \/ \E indata \in RaceBlocks : CbEnter(indata)
    \/ CbWaveform \/ CbSpectrum \/ CbWeighFirst \/ CbWeighSecond
    \/ \E g \in Gains : RaceSetGain(g)
    \/ \E s \in AnySmoothings : RaceSetSmoothing(s)

RaceSpec == RaceInit /\ [][RaceNext]_vars

\* ---------------------------------------------------------------- negotiation alone
\* One _start_sounddevice call on a constructed processor, on a host with the
\* same output under two host APIs and Stereo Mix under two host APIs.
SdDeviceInfo(name, hostapi, ins, outs, rate) ==
    [name |-> name, hostapi |-> hostapi, max_input_channels |-> ins,
     max_output_channels |-> outs, default_samplerate |-> rate]

\* sd.query_devices(): the device with index i is at position i + 1
SdHost ==
    <<SdDeviceInfo("Speakers (Realtek Audio)", "Windows WASAPI", 0, 8, 44100),
      SdDeviceInfo("Stereo Mix (Realtek Audio)", "Windows WASAPI", 2, 0, 48000),
      SdDeviceInfo("Stereo Mix (Realtek Audio)", "MME", 2, 0, 44100),
      SdDeviceInfo("Speakers (Realtek Audio)", "MME", 0, 2, 44100)>>

SdIds == {i - 1 : i \in DOMAIN SdHost}

\* sd.query_devices(sd.default.device[1])['name']
default_out_name == "Speakers (Realtek Audio)"

\* the device sd.query_devices answers with when the index has no value
SdDefaultInput == 2

RECURSIVE Indices(_, _)
\* range(lo, hi + 1) as a list
Indices(lo, hi) == IF lo > hi THEN <<>> ELSE <<lo>> \o Indices(lo + 1, hi)

\* find_loopback_candidates on the devices a host reports
find_loopback_candidates_on(devices, q) ==
    LET ids == Indices(0, Len(devices) - 1)
        d(i) == devices[i + 1]
        all == {i - 1 : i \in DOMAIN devices}
        native == {i \in all : /\ Contains(d(i).hostapi, "Windows WASAPI")
                               /\ \/ Contains(d(i).name, default_out_name)
                                  \/ Contains(lower(d(i).name), "syncmaster")}
        mixMME == {i \in all : /\ Contains(lower(d(i).name), "stereo mix")
                               /\ Contains(d(i).hostapi, "MME")}
        mixAny == {i \in all : Contains(lower(d(i).name), "stereo mix")}
        keyword == {i \in all : \E kw \in LoopbackKeywords : Contains(lower(d(i).name), kw)}
        c1 == IF q = "ok" THEN AppendMatching(<<>>, ids, native) ELSE <<>>
        c2 == AppendMatching(c1, ids, mixMME)
        c3 == AppendMatching(c2, ids, mixAny)
        c4 == AppendMatching(c3, ids, keyword)
    IN IF q = "fail" THEN <<>> ELSE c4

RECURSIVE before_paren(_)
\* target_name.split('(')[0]
before_paren(name) ==
    IF Len(name) = 0 \/ SubSeq(name, 1, 1) = "(" THEN ""
    ELSE SubSeq(name, 1, 1) \o before_paren(SubSeq(name, 2, Len(name)))

RECURSIVE strip(_)
\* str.strip() of a name with no leading blank
strip(name) ==
    IF Len(name) > 0 /\ SubSeq(name, Len(name), Len(name)) = " "
    THEN strip(SubSeq(name, 1, Len(name) - 1)) ELSE name

\* _find_mme_version(target_name): the first MME device whose name contains the
\* base name, or None
find_mme_version(devices, target_name) ==
    LET m == {i \in DOMAIN devices :
                 /\ devices[i].hostapi = "MME"
                 /\ Contains(devices[i].name, strip(before_paren(target_name)))}
    IN IF m = {} THEN None ELSE Some((CHOOSE i \in m : \A j \in m : i <= j) - 1)

\* How the driver answers the calls made for one device:
\*   "ok" every tuple opens; "stereo": tuples of at most 2 channels open;
\*   "mono44": only (1, 44100) opens; "nostart": InputStream() returns and
\*   stream.start() raises; "none": InputStream() raises; "query": the query of
\*   the device raises
Answers == {"ok", "stereo", "mono44", "nostart", "none", "query"}

Outcome(answer, chans, rate) ==
    CASE answer = "ok" -> "ok"
      [] answer = "stereo" -> IF chans <= 2 THEN "ok" ELSE "open_raises"
      [] answer = "mono44" -> IF chans = 1 /\ rate = 44100 THEN "ok" ELSE "open_raises"
      [] answer = "nostart" -> "start_raises"
      [] OTHER -> "open_raises"

RECURSIVE try_tuples(_, _, _)
\* lines 174-202: the attempts made on one device, the last one first to succeed
try_tuples(idx, tuples, answer) ==
    IF tuples = <<>> THEN <<>>
    ELSE LET o == Outcome(answer, Head(tuples)[1], Head(tuples)[2])
             a == [device |-> idx, channels |-> Head(tuples)[1],
                   samplerate |-> Head(tuples)[2], outcome |-> o]
         IN IF o = "ok" THEN <<a>> ELSE <<a>> \o try_tuples(idx, Tail(tuples), answer)

Succeeded(log) == log # <<>> /\ log[Len(log)].outcome = "ok"

RECURSIVE try_devices(_, _, _)
\* lines 156-205: the attempts of the whole call
try_devices(list, tuples, drv) ==
    IF list = <<>> THEN <<>>
    ELSE LET idx == Head(list)
             i == IF idx = None THEN SdDefaultInput ELSE idx[1]
             log == IF drv[i] = "query" THEN <<>> ELSE try_tuples(idx, tuples[i], drv[i])
         IN IF Succeeded(log) THEN log ELSE log \o try_devices(Tail(list), tuples, drv)

\* lines 144-153
sd_device_list_on(candidates, d, loop) ==
    LET c == candidates
        l == IF d # None THEN <<d>>
             ELSE IF loop THEN [i \in DOMAIN c |-> Some(c[i])]
             ELSE <<>>
    IN IF l = <<>> THEN <<None>> ELSE l

\* what the host gives for each way its queries answer, and for each device
SdCandidates == [q \in Queries |-> find_loopback_candidates_on(SdHost, q)]
SdTuples == [i \in SdIds |-> attempt_tuples(SdHost[i + 1])]
SdMmeVersion == [i \in SdIds |-> find_mme_version(SdHost, SdHost[i + 1].name)]

NegotiationInit ==
    /\ Idle
    /\ HAS_PYAUDIOWPATCH = FALSE
    /\ smoother = SmoothingBuffer(FftBins, 800)
    /\ \E drv \in [SdIds -> Answers] : call = [op |-> "new", drv |-> drv]

\* _start_sounddevice(device_index, use_loopback): call keeps the arguments, the
\* device list and the attempts in order.  A stream object exists for every
\* attempt whose InputStream() returned; they are numbered in order of creation.
StartSounddevice(d, loop, q) ==
    /\ call.op = "new"
    /\ LET list == sd_device_list_on(SdCandidates[q], d, loop)
           log == try_devices(list, SdTuples, call.drv)
           made == {k \in DOMAIN log : log[k].outcome # "open_raises"}
       IN /\ call' = [op |-> "_start_sounddevice", drv |-> call.drv,
                      device_index |-> d, use_loopback |-> loop, query |-> q,
                      device_list |-> list, attempts |-> log]
          /\ is_running' = Succeeded(log)
          /\ device_index' = IF Succeeded(log) THEN log[Len(log)].device ELSE device_index
          /\ sample_rate' = IF Succeeded(log) THEN log[Len(log)].samplerate ELSE sample_rate
          /\ stream' = IF made = {} THEN stream
                       ELSE Some(CHOOSE k \in made : \A j \in made : j <= k)
          /\ openStreams' = {[id |-> k, lib |-> "sd", active |-> log[k].outcome = "ok"] :
                                k \in made}
    /\ UNCHANGED <<pa_instance, dataVars, HAS_PYAUDIOWPATCH, paLeaked, faults, pc, ctx,
                   arg_dev, arg_loop, loopVars, ret, cbVars, old_stream, widget>>

NegotiationNext ==
    \E d \in {None} \cup {Some(i) : i \in SdIds}, loop \in BOOLEAN, q \in Queries :
        StartSounddevice(d, loop, q)

NegotiationSpec == NegotiationInit /\ [][NegotiationNext]_vars

\* ---------------------------------------------------------------- the widget alone
\* update_audio_data on frames of every activity, as the signal delivers them:
\* each frame brings array objects the widget has not seen before.
\* the frames delivered: silence, a quiet one and a loud one
Frames ==
    {<<Zeros(WaveLen), Zeros(WaveLen), 0>>,
     <<[i \in 1..WaveLen |-> 2 * i], [i \in 1..WaveLen |-> i], 600>>,
     <<[i \in 1..WaveLen |-> -300 * i], [i \in 1..WaveLen |-> 400], 5000>>}

widgetRest == <<procVars, dataVars, HAS_PYAUDIOWPATCH, openStreams, paLeaked, faults, pc,
                ctx, arg_dev, arg_loop, loopVars, ret, cbVars, old_stream>>

VisualizerInit ==
    /\ Idle
    /\ HAS_PYAUDIOWPATCH = TRUE
    /\ smoother = SmoothingBuffer(FftBins, 800)
    /\ call = [op |-> "new", quiet |-> 0]

\* main_window.py:188-189: audio_data_ready is connected to update_audio_data.
\* call keeps the arguments, the widget before the call, the array objects the
\* call wrote into and quiet, the number of updates in a row, this one last,
\* whose smoothed level was below RAW_THRESHOLD_OFF.
UpdateAudioData(waveform, fft, activity_signal) ==
    /\ \E r \in {update_audio_data(widget, Array("received", waveform),
                                   Array("received", fft), activity_signal)} :
         /\ widget' = r.obj
         /\ call' = [op |-> "update_audio_data", waveform |-> waveform, fft_data |-> fft,
                     activity_signal |-> activity_signal, self |-> widget,
                     wrote |-> r.wrote,
                     quiet |-> IF r.obj.activity_level < RAW_THRESHOLD_OFF
                               THEN Min(call.quiet + 1, SILENCE_TIMEOUT + 2) ELSE 0]
    /\ UNCHANGED widgetRest

VisualizerNext == \E f \in Frames : UpdateAudioData(f[1], f[2], f[3])

VisualizerSpec == VisualizerInit /\ [][VisualizerNext]_vars

\* ---------------------------------------------------------------- properties
\* the stream ref refers to has been opened and not yet closed
IsOpen(ref) == \E s \in openStreams : ref = Some(s.id)

\* the positions inside start
StartPcs == {"pa_init", "pa_probe", "pa_open", "pa_assign", "sd_begin", "sd_device",
             "sd_open", "sd_start"}

\* C1, as claimed: at most one driver stream that has been opened and not yet
\* closed exists at any time.  Violated: a stream whose start() raises is never
\* closed, and the next attempt opens another one.
C1_AtMostOneOpenStream == Cardinality(openStreams) <= 1

\* C2: start called while is_running is true makes no open attempt (it goes
\* straight to its return, no driver call made, no stream opened or closed) and
\* leaves stream, pa_instance, device_index, sample_rate and is_running unchanged
\* until it has returned.
C2_StartIdempotent ==
    [][ /\ (pc = "idle" /\ ctx' = "start" /\ is_running)
            => /\ pc' = "start_ret" /\ ret'.how = "noop"
               /\ UNCHANGED <<procVars, openStreams, faults>>
        /\ (pc = "start_ret" /\ ret.how = "noop")
            => /\ pc' \in {"start_ret", "idle"}
               /\ UNCHANGED <<procVars, openStreams, faults>>
      ]_vars

\* start is returning from a call made while the processor was running
C2_Witness == pc = "start_ret" /\ ret.how = "noop" /\ is_running /\ IsOpen(stream)

\* C3: stop called while is_running is false goes straight to its return (no
\* driver call is made, so nothing can raise) and no step of it changes a field
\* of the processor or a driver stream.
C3_StopIdempotent ==
    [][ /\ (pc = "idle" /\ ctx' = "stop" /\ ~is_running)
            => /\ pc' = "stop_ret"
               /\ UNCHANGED <<procVars, dataVars, openStreams, paLeaked, faults>>
        /\ (pc = "stop_ret" /\ ctx = "stop" /\ blocks' = blocks)
            => /\ pc' \in {"stop_ret", "idle"}
               /\ UNCHANGED <<procVars, dataVars, openStreams, paLeaked, faults>>
      ]_vars

\* stop is returning from a call made after a start in which every attempt
\* failed: the stream that start left in the field is still there
C3_Witness == pc = "stop_ret" /\ ctx = "stop" /\ ~is_running /\ stream # None

\* C4: _start_sounddevice tries the tuples of a device one at a time in list
\* order; the step in which a stream that was opened also starts ends the
\* negotiation with is_running true, device_index the device and sample_rate the
\* rate of that tuple, and start returns without a further attempt.  When the
\* first three of four tuples have failed, the tuple left is (mono, 44100 Hz),
\* and success on it ends running at 44100 Hz.
C4_FirstSuccessWins ==
    [][ /\ (pc = "sd_start" /\ openStreams' # openStreams)
            => /\ pc' = "start_ret" /\ ret'.how = "opened"
               /\ is_running'
               /\ device_index' = Head(device_list)
               /\ sample_rate' = Head(todo)[2]
               /\ UNCHANGED <<stream, device_list, todo>>
               /\ (Len(attempt_tuples(QueryInfo(Head(device_list)))) = 4 /\ Len(todo) = 1)
                     => (Head(todo) = <<1, 44100>> /\ sample_rate' = 44100)
        /\ (pc \in {"sd_open", "sd_start"} /\ todo' # todo /\ pc' \in StartPcs)
            => (todo' = Tail(todo) /\ pc' = "sd_open")
        /\ (pc = "start_ret" /\ ret.how = "opened")
            => /\ pc' \in {"start_ret", "idle"}
               /\ is_running'
               /\ UNCHANGED <<procVars, openStreams, faults>>
      ]_vars

\* start is returning after three of the four tuples of a device failed and the
\* last, (mono, 44100 Hz), opened and started
C4_Witness ==
    /\ pc = "start_ret" /\ ret.how = "opened"
    /\ Len(todo) = 1 /\ Head(todo) = <<1, 44100>>
    /\ is_running /\ sample_rate = 44100 /\ device_index = Head(device_list)
    /\ faults = 3

\* C5: a failing driver call inside start never ends the call abnormally (the
\* next position is one of start's own or its return); when every attempt has
\* failed start returns with is_running false; and a start called while
\* is_running is false always probes, whatever happened before.
C5_FailedStartIsRecoverable ==
    [][ /\ (pc \in StartPcs) => (pc' \in StartPcs \cup {"start_ret"})
        /\ (pc \in StartPcs /\ pc' = "start_ret" /\ ret'.how = "failed") => ~is_running'
        /\ (pc \in {"idle", "stop_ret", "start_ret"} /\ pc' \in StartPcs \cup {"start_ret"}
              /\ pc' # pc /\ ~is_running)
            => pc' \in {"pa_init", "sd_begin"}
      ]_vars

\* a start call is probing again after an earlier start, in which every attempt
\* failed, left its last stream in the field
C5_Witness ==
    pc = "sd_begin" /\ ctx = "start" /\ ~is_running /\ stream # None /\ faults > 0

C7_OldStreamClosedBeforeOpen ==
    (/\ ctx \in {"set_device_start", "set_device_retry"}
     /\ pc = "pa_open" \/ (pc = "sd_open" /\ todo # <<>>))
        => ~IsOpen(old_stream)

\* C8: a callback invocation handed a status with input_overflow emits nothing
\* and leaves audio_buffer, fft_data, the filter, is_running and stream unchanged.
C8_OverflowDropsBlock ==
    [][ (blocks' # blocks /\ cb'.status = "input_overflow")
            => /\ cb'.outcome = "overflow"
               /\ UNCHANGED <<audio_buffer, fft_data, smoother, is_running, stream>>
      ]_vars

\* the stream of a running processor has delivered a block with input_overflow
C8_Witness ==
    cb.status = "input_overflow" /\ cb.outcome = "overflow" /\ is_running /\ blocks > 0

\* C9, as claimed: no exception propagates out of a callback invocation.
\* Violated: _pyaudio_callback converts the block outside any try.
C9_NoExceptionEscapes == cb.outcome # "raised"

\* C10, as claimed: when stop returns from a running state, the stream it was
\* called on has been closed.  Violated: close() is skipped when stop() raises.
C10_StreamClosedAfterStop ==
    (pc = "stop_ret" /\ ctx = "stop" /\ old_stream # None /\ stream = None)
        => ~IsOpen(old_stream)

\* ---------------------------------------------------------------- properties of the filters
\* the filter a constructor call with the parameters of f and size n gives
Fresh(f, n) ==
    IF f.kind = "CavaFilter" THEN CavaFilter(n, f.integral_weight, f.gravity)
    ELSE SmoothingBuffer(n, f.smoothing)

\* the last call was an update of a filter of kind k with a vector of its size
SameSizeUpdate(c, k) ==
    c.op = "update" /\ c.self.kind = k /\ Len(c.values) = c.self.size

\* C11: for both filters and every input length N, equal to the filter's size or
\* not, update returns a vector of exactly N entries, and afterwards the filter's
\* size is N and the arrays it keeps have N entries.
C11_UpdateKeepsLength ==
    call.op = "update" =>
        /\ Len(call.out) = Len(call.values)
        /\ smoother.size = Len(call.values)
        /\ Len(Kept(smoother)) = Len(call.values)

\* an update with a vector longer than the filter was has returned
C11_Witness ==
    /\ call.op = "update"
    /\ call.self.kind = "SmoothingBuffer"
    /\ Len(call.values) > call.self.size
    /\ Len(call.out) = Len(call.values)

\* C12: a SmoothingBuffer.update with an input of the current size sets each
\* component of the state to state * s + input * (1 - s), computed in float32 (within
\* two rounding units of the exact value), and returns the new state as a copy:
\* writing into the vector returned leaves the filter as it is.  From the zero
\* state with s = 0.5 the input 10 gives 5 and then 7.5 (20, 10 and 15 halves).
C12_UpdateIsWeightedSum ==
    [][/\ SameSizeUpdate(call', "SmoothingBuffer") =>
             /\ smoother'.buffer = call'.out
             /\ ~call'.alias
             /\ \A i \in DOMAIN call'.out :
                    Abs(Milli * call'.out[i]
                          - (call'.self.buffer[i] * call'.self.smoothing
                               + call'.values[i] * (Milli - call'.self.smoothing)))
                      <= 2 * Milli * Ulp(Max(Abs(call'.self.buffer[i]), Abs(call'.values[i])))
             /\ (call'.self.smoothing = 500 /\ call'.values = <<20>>) =>
                    /\ call'.self.buffer = <<0>> => call'.out = <<10>>
                    /\ call'.self.buffer = <<10>> => call'.out = <<15>>
       /\ (call.op = "update" /\ call'.op = "write") => smoother' = smoother]_vars

\* the second update of the example has returned 7.5 and the caller has written
\* into the vector
C12_Witness ==
    /\ call.op = "write"
    /\ call.self.kind = "SmoothingBuffer" /\ call.self.smoothing = 500
    /\ call.self.buffer = <<10>> /\ call.values = <<20>>
    /\ smoother.buffer = <<15>> /\ call.out # smoother.buffer

\* C13: on the exponential filter, after set_smoothing(0.0) update(x) returns x
\* whatever the state was, and after set_smoothing(1.0) update(x) returns the
\* state as it was and leaves it so, for every x of the current size.
C13_SmoothingExtremes ==
    [][(/\ call.op = "set_smoothing"
        /\ SameSizeUpdate(call', "SmoothingBuffer")) =>
            /\ call.values = <<0>> => call'.out = call'.values
            /\ call.values = <<Milli>> =>
                   call'.out = smoother.buffer /\ smoother'.buffer = smoother.buffer]_vars

\* after set_smoothing(1.0) an update with another vector has returned a state
\* that is not zero
C13_Witness ==
    /\ SameSizeUpdate(call, "SmoothingBuffer")
    /\ ~call.again
    /\ call.self.smoothing = Milli
    /\ call.self.buffer # Zeros(call.self.size)
    /\ call.values # call.self.buffer
    /\ call.out = call.self.buffer

\* C14: for both filters, an update whose input length differs from the filter's
\* size gives what a freshly constructed filter of the new length with the same
\* parameters gives for that input, and leaves the filter as it leaves that one.
C14_ResizeResets ==
    (call.op = "update" /\ Len(call.values) # call.self.size) =>
        LET r == smoother_update(Fresh(call.self, Len(call.values)), call.values)
        IN call.out = r.out /\ smoother = r.obj

\* a CavaFilter with history has been given a vector of another length
C14_Witness ==
    /\ call.op = "update" /\ call.self.kind = "CavaFilter"
    /\ Len(call.values) # call.self.size
    /\ call.self.integral_buffer # Zeros(call.self.size)
    /\ call.out # Zeros(Len(call.values))

\* C15, as claimed: both filters offer reset(): the call raises nothing.
C15_BothOfferReset == call.op = "reset" => call.raised = ""

\* C16, as claimed: repeated update of a SmoothingBuffer with s in [0,1) by the same
\* vector x never increases a component's distance to x and never moves it past x.
C16_NeverAwayFromInput ==
    (SameSizeUpdate(call, "SmoothingBuffer") /\ call.again /\ call.self.smoothing < Milli) =>
        \A i \in DOMAIN call.out :
            /\ Abs(call.out[i] - call.values[i]) <= Abs(call.self.buffer[i] - call.values[i])
            /\ (call.self.buffer[i] - call.values[i]) * (call.out[i] - call.values[i]) >= 0

\* C16, as the code has it: the distance grows by at most one float32 rounding
\* unit in a call, and a component that moves past x ends within one rounding unit
\* of it.
C16_NeverAwayBeyondRounding ==
    (SameSizeUpdate(call, "SmoothingBuffer") /\ call.again /\ call.self.smoothing < Milli) =>
        \A i \in DOMAIN call.out :
            LET b == call.self.buffer[i]
                x == call.values[i]
                u == Ulp(Max(Abs(b), Abs(x)))
            IN /\ Abs(call.out[i] - x) <= Abs(b - x) + u
               /\ (b - x) * (call.out[i] - x) < 0 => Abs(call.out[i] - x) <= u

\* a repeated update has moved a component that had reached x one unit past it
C16_Witness ==
    /\ SameSizeUpdate(call, "SmoothingBuffer") /\ call.again
    /\ call.self.smoothing = 800
    /\ call.self.buffer = call.values
    /\ call.out # call.values

\* ---------------------------------------------------------------- properties of the enumeration
\* entry i of the host's devices is in the list returned, as system audio
ListedAsSystemAudio(c, i) ==
    \E k \in DOMAIN c.out : c.out[k].index = i - 1 /\ c.out[k].is_loopback

\* C17: get_devices lists a device as system audio (is_loopback true) exactly when
\* it has at least one input channel, its lower-cased name contains a system-audio
\* keyword, and it contains no microphone keyword unless it contains "stereo mix":
\* "Stereo Mix (Realtek Audio)" and "Headset Stereo Mix" with an input channel are
\* listed as system audio, "Microphone Array" is not.
C17_SystemAudioClassification ==
    (call.op = "get_devices" /\ call.query = "ok") =>
        \A i \in DOMAIN call.host :
            LET d == call.host[i]
                n == lower(d.name)
            IN /\ ListedAsSystemAudio(call, i) <=>
                      /\ d.max_input_channels >= 1
                      /\ \E kw \in valid_keywords : Contains(n, kw)
                      /\ \/ \A kw \in exclude_keywords : ~Contains(n, kw)
                         \/ Contains(n, "stereo mix")
               /\ (d.name \in {"Stereo Mix (Realtek Audio)", "Headset Stereo Mix"}
                     /\ d.max_input_channels >= 1) => ListedAsSystemAudio(call, i)
               /\ d.name = "Microphone Array" => ~ListedAsSystemAudio(call, i)

\* a host with "Microphone Array" and "Headset Stereo Mix" has been listed
C17_Witness ==
    /\ call.op = "get_devices" /\ call.query = "ok"
    /\ Len(call.host) = 2
    /\ call.host[1].name = "Microphone Array"
    /\ call.host[2].name = "Headset Stereo Mix"
    /\ Len(call.out) = 1
    /\ call.out[1].index = 1 /\ call.out[1].is_loopback

\* C18, as claimed: whenever the host enumerates at least one device, the list
\* get_devices returns is not empty.
C18_FallbackNeverEmpty ==
    (call.op = "get_devices" /\ call.query = "ok" /\ Len(call.host) >= 1) =>
        call.out # <<>>

\* C19: when sd.query_devices() raises, get_devices returns the empty list and
\* find_loopback_candidates returns the empty list; no exception reaches the
\* caller and no field of the processor changes.
C19_QueryFailureGivesEmptyList ==
    [][(call'.op \in {"get_devices", "find_loopback_candidates"} /\ call'.query = "fail") =>
           /\ call'.out = <<>>
           /\ call'.raised = ""
           /\ UNCHANGED <<procVars, dataVars>>]_vars

\* the query has failed on a host whose devices would have been listed
C19_Witness ==
    /\ call.op = "get_devices" /\ call.query = "fail"
    /\ call.out = <<>>
    /\ get_devices(call.host, "ok").out # <<>>

\* ---------------------------------------------------------------- properties of the callback
\* C20: an all-zero block of any channel count, given to a processor whose filter
\* state is all zero, is emitted with activity level 0 and a spectrum whose
\* entries are all 0.
C20_SilenceGivesZeroFrame ==
    (/\ call.op = "block"
     /\ call.indata.amp = 0 /\ call.indata.raw = Zeros(FftBins)
     /\ AllZero(call.self)) =>
        /\ call.emit
        /\ call.frame[3] = 0
        /\ call.frame[2] = Zeros(FftBins)
        /\ fft_data = Zeros(FftBins)

\* a silent surround block has been processed by a CavaFilter in its zero state
C20_Witness ==
    /\ call.op = "block"
    /\ call.indata.amp = 0 /\ call.indata.chans >= 3
    /\ call.self.kind = "CavaFilter" /\ call.self.gravity > 0 /\ AllZero(call.self)
    /\ call.emit /\ cb.outcome = "emit" /\ cb.activity = 0

\* ---------------------------------------------------------------- properties of the filters, continued
\* C26: a CavaFilter.update with an input of the current size and gravity >= 0
\* sets each component of the integral to input * (1 - w) + integral * w and gives
\* max(0, max(integral, previous output - gravity)), both computed in float32
\* (within two rounding units of the exact value for the integral, one for the
\* difference); no output component is negative and none is lower than the
\* previous output minus gravity.
C26_IntegralAndGravity ==
    (SameSizeUpdate(call, "CavaFilter") /\ call.self.gravity >= 0) =>
        \A i \in DOMAIN call.out :
            LET integral == smoother.integral_buffer[i]
                w == call.self.integral_weight
                previous == call.self.prev_values[i]
                fall == previous - call.self.gravity
            IN /\ Abs(Milli * integral
                        - (call.values[i] * (Milli - w) + call.self.integral_buffer[i] * w))
                    <= 2 * Milli * Ulp(Max(Abs(call.self.integral_buffer[i]),
                                           Abs(call.values[i])))
               /\ call.out[i] = Max(0, Max(integral, float32(fall)))
               /\ Abs(float32(fall) - fall) <= Ulp(fall)
               /\ call.out[i] >= 0
               /\ call.out[i] >= fall - Ulp(fall)
               /\ smoother.prev_values[i] = call.out[i]

\* the input has dropped and the output falls by gravity, above the integral
C26_Witness ==
    /\ SameSizeUpdate(call, "CavaFilter") /\ call.self.gravity > 0
    /\ \E i \in DOMAIN call.out :
          /\ call.self.prev_values[i] > call.self.gravity
          /\ call.out[i] = call.self.prev_values[i] - call.self.gravity
          /\ call.out[i] > smoother.integral_buffer[i]

\* ---------------------------------------------------------------- properties of the callback, continued
\* C27: whatever blocks are processed and whatever values set_gain and
\* set_smoothing are called with between them, on a filter built with weight in
\* [0,1] and gravity >= 0, every entry of an emitted spectrum is in [0,1] and
\* every sample of an emitted waveform in [-1,1].
C27_EmittedFrameInRange ==
    /\ \A i \in DOMAIN fft_data : 0 <= fft_data[i] /\ fft_data[i] <= Milli
    /\ -FullScale <= audio_buffer.val /\ audio_buffer.val <= FullScale
    /\ (call.op = "block" /\ call.emit) =>
          /\ \A i \in DOMAIN call.frame[2] :
                0 <= call.frame[2][i] /\ call.frame[2][i] <= Milli
          /\ -FullScale <= call.frame[1].val /\ call.frame[1].val <= FullScale

\* a loud block has been emitted at ten times the base gain: the waveform is at
\* full scale and a spectrum entry at 1
C27_Witness ==
    /\ call.op = "block" /\ call.emit /\ call.indata.amp > 0
    /\ gain > BaseGain
    /\ blocks = MaxFrames
    /\ call.frame[1].val = FullScale
    /\ \E i \in DOMAIN call.frame[2] : call.frame[2][i] = Milli

\* the weights a filter can have after set_smoothing, or from its construction
WeightsOf(f) ==
    IF f.kind = "CavaFilter"
    THEN {f.integral_weight} \cup {clip(s, 100, 950) : s \in AnySmoothings}
    ELSE {f.smoothing} \cup {clip(s, 0, Milli) : s \in AnySmoothings}

WithWeight(f, w) ==
    IF f.kind = "CavaFilter" THEN [f EXCEPT !.integral_weight = w]
    ELSE [f EXCEPT !.smoothing = w]

\* C22, as claimed: the frame a callback emits while set_gain and set_smoothing
\* are called is the frame of the block processed with one gain and one weight
\* throughout, and every entry of its spectrum is in [0,1].  Violated: the
\* callback reads self.gain twice and update reads the weight twice.
C22_OneValuePerBlock ==
    (cb.outcome = "emit") =>
        /\ \E g \in Gains \cup {BaseGain}, w \in WeightsOf(cb.self) :
              audio_callback(cb.indata, "none", audio_buffer, fft_data, g,
                             WithWeight(cb.self, w)).frame = cb.frame
        /\ \A i \in DOMAIN cb.frame[2] : 0 <= cb.frame[2][i] /\ cb.frame[2][i] <= Milli

\* ---------------------------------------------------------------- properties of the lifecycle, continued
\* C28, as claimed: between calls, whenever is_running is false stream and
\* pa_instance are None.  Violated: a start in which every attempt failed leaves
\* stream (or pa_instance) referring to what its last attempt created.
C28_StoppedHoldsNothing ==
    (pc = "idle" /\ ~is_running) => (stream = None /\ pa_instance = None)

\* the contexts of a set_device call that stops and starts
Switching == {"set_device", "set_device_start", "set_device_retry"}

\* C30: set_device (-1 standing for no index) stops and starts only when the
\* processor is running on another index than the one requested; called on a
\* stopped processor, or on one running on the requested index, it returns with
\* stream, device_index, sample_rate, is_running and the open streams unchanged.
C30_SetDeviceOnlyOnChange ==
    [][/\ (pc = "idle" /\ ctx' \in Switching \cup {"set_device_same", "set_device_stopped"}) =>
             IF is_running /\ arg_dev' # device_index
             THEN ctx' = "set_device"
             ELSE /\ ctx' \in {"set_device_same", "set_device_stopped"}
                  /\ pc' = "set_device_ret"
                  /\ UNCHANGED <<procVars, openStreams>>
       /\ ctx \in {"set_device_same", "set_device_stopped"} =>
             /\ pc = "set_device_ret" /\ pc' = "idle" /\ ctx' = "idle"
             /\ UNCHANGED <<procVars, openStreams>>
       /\ (ctx' \in Switching /\ ctx' # ctx) =>
             \/ pc = "idle" /\ ctx' = "set_device"
             \/ ctx = "set_device" /\ ctx' = "set_device_start"
             \/ ctx = "set_device_start" /\ ctx' = "set_device_retry"]_vars

\* set_device has been called with the index the processor is running on, and
\* with some index on a stopped processor that still refers to a stream
C30_Witness ==
    /\ pc = "set_device_ret"
    /\ \/ ctx = "set_device_same" /\ is_running /\ IsOpen(stream) /\ arg_dev = device_index
       \/ ctx = "set_device_stopped" /\ ~is_running /\ arg_dev # None

\* ---------------------------------------------------------------- properties of the negotiation
\* the attempts of the last _start_sounddevice call made on device idx
AttemptsOn(idx) == {k \in DOMAIN call.attempts : call.attempts[k].device = idx}

\* C23, as claimed: the first tuple attempted on a device has the device's
\* default sample rate and its channel count clamped to 2.  Violated: the
\* channel candidates include the hardware count unclamped and the rates are
\* tried in descending order, whatever the default is.
C23_DefaultTupleFirst ==
    call.op = "_start_sounddevice" =>
        \A k \in DOMAIN call.attempts :
            LET a == call.attempts[k]
                info == SdHost[(IF a.device = None THEN SdDefaultInput ELSE a.device[1]) + 1]
                hw == IF is_wasapi_loopback(info) THEN info.max_output_channels
                      ELSE info.max_input_channels
            IN (hw > 0 /\ (k = 1 \/ call.attempts[k - 1].device # a.device)) =>
                  /\ a.samplerate = info.default_samplerate
                  /\ a.channels = Min(hw, 2)

\* C24, as claimed: when every tuple has failed on a Windows WASAPI candidate
\* that has an MME device of the same base name, the tuples are tried on that
\* MME device afterwards.  Violated: _find_mme_version is never called.
C24_MmeRetryAfterWasapiFailure ==
    call.op = "_start_sounddevice" =>
        \A i \in SdIds :
            (/\ SdHost[i + 1].hostapi = "Windows WASAPI"
             /\ SdMmeVersion[i] # None
             /\ Cardinality(AttemptsOn(Some(i))) = Len(SdTuples[i])
             /\ \A k \in AttemptsOn(Some(i)) : call.attempts[k].outcome # "ok") =>
                \E k \in AttemptsOn(SdMmeVersion[i]) :
                    \A j \in AttemptsOn(Some(i)) : j < k

\* C25, as claimed: the device list of a start call names no device twice and
\* is ordered: native loopback of the default output, then Stereo Mix devices
\* with the higher-fidelity host API first, then devices matched by a keyword
\* only, and at the end the explicit device when one was given.  Violated: with
\* an explicit device the list is that device alone, and Stereo Mix under MME
\* precedes Stereo Mix under Windows WASAPI.
C25_RankedCandidateList ==
    (call.op = "_start_sounddevice" /\ call.use_loopback /\ call.query = "ok") =>
        LET l == call.device_list
            info(idx) == SdHost[idx[1] + 1]
            name(idx) == lower(info(idx).name)
            native(idx) == /\ info(idx).hostapi = "Windows WASAPI"
                           /\ Contains(info(idx).name, default_out_name)
            rank(idx) == IF native(idx) THEN 1
                         ELSE IF Contains(name(idx), "stereo mix")
                         THEN (IF info(idx).hostapi = "Windows WASAPI" THEN 2 ELSE 3)
                         ELSE IF \E kw \in LoopbackKeywords : Contains(name(idx), kw) THEN 4
                         ELSE 5
            ranked == IF call.device_index = None THEN l ELSE SubSeq(l, 1, Len(l) - 1)
        IN /\ \A j, k \in DOMAIN l : j # k => l[j] # l[k]
           /\ \A j, k \in DOMAIN ranked : j < k => rank(ranked[j]) <= rank(ranked[k])
           /\ call.device_index # None =>
                 /\ l[Len(l)] = call.device_index
                 /\ \A i \in SdIds : rank(Some(i)) < 5 => Some(i) \in Range(l)

\* ---------------------------------------------------------------- properties of the widget
\* C21, as claimed: no update_audio_data call writes into an array object that
\* was passed to update_audio_data.  Violated: once active the widget holds the
\* arrays it was handed, and the update that finds it silent fills them with zeros.
C21_NeverWritesReceived ==
    call.op = "update_audio_data" => "received" \notin call.wrote

\* C29: is_silent turns false only on an update whose smoothed level exceeds
\* RAW_THRESHOLD_ON, and turns true only on the (SILENCE_TIMEOUT + 1)-th update in
\* a row whose smoothed level is below RAW_THRESHOLD_OFF; an update at or above
\* RAW_THRESHOLD_OFF while active sets the silence counter to 0; while is_silent
\* the widget's waveform and spectrum are all zero.
C29_SilenceStateMachine ==
    /\ widget.is_silent =>
          /\ widget.waveform.val = Zeros(Len(widget.waveform.val))
          /\ widget.fft_data.val = Zeros(Len(widget.fft_data.val))
    /\ call.op = "update_audio_data" =>
          /\ (call.self.is_silent /\ ~widget.is_silent) =>
                widget.activity_level > RAW_THRESHOLD_ON
          /\ (~call.self.is_silent /\ widget.is_silent) =>
                /\ widget.activity_level < RAW_THRESHOLD_OFF
                /\ call.quiet = SILENCE_TIMEOUT + 1
          /\ (~call.self.is_silent /\ call.quiet = SILENCE_TIMEOUT + 1) => widget.is_silent
          /\ (~call.self.is_silent /\ widget.activity_level >= RAW_THRESHOLD_OFF) =>
                widget.silence_frame_counter = 0 /\ ~widget.is_silent

\* an active widget that held a loud frame has turned silent on this update
C29_Witness ==
    /\ call.op = "update_audio_data"
    /\ ~call.self.is_silent /\ call.self.waveform.val # Zeros(WaveLen)
    /\ widget.is_silent /\ call.quiet = SILENCE_TIMEOUT + 1
    /\ widget.waveform.val = Zeros(WaveLen)

====
